---- MODULE Spec2Model ----
(***************************************************************************)
(* The HTML tokenizer (dom/src/tokenizer.rs), the node arena               *)
(* (dom/src/arena.rs, dom/src/node.rs) and the tree constructor            *)
(* (components/zaailing/src/parser.rs) as one state machine.               *)
(*                                                                         *)
(* Characters are one-character strings, strings of the program are        *)
(* sequences of characters, node ids are the 0-based indices of the        *)
(* arena's vector.  A panic of the program (todo!(), unwrap() of None,     *)
(* expect(), unreachable!(), an index out of range) takes the run to       *)
(* pc = "panicked", where it stays.                                        *)
(***************************************************************************)
EXTENDS Integers, Sequences, FiniteSets, TLC

\* ------------------------------------------------------------------ bounds
\* Number of source fragments an input is made of.
MaxPieces == 3
\* Cap on the adoption agency's inner loop counter (a usize in the code).
MaxInner == 5

\* -------------------------------------------------------------- characters
\* A character is a string of length one, a program string a TLA+ string.
\* None is Option::None, for a character as for a token.
None == "None"
\* Stands for U+0000.
NUL == "@"

UpperAlpha == "ABCDEFGHIJKLMNOPQRSTUVWXYZ"
LowerAlpha == "abcdefghijklmnopqrstuvwxyz"

CharAt(s, i) == SubSeq(s, i, i)
Chars(s) == {CharAt(s, i) : i \in 1..Len(s)}

IsAsciiUpperAlpha(c) == c \in Chars(UpperAlpha)
IsAsciiAlpha(c) == c \in Chars(LowerAlpha) \/ IsAsciiUpperAlpha(c)
IsTokenizerWhitespace(c) == c \in {"\t", "\n", "\f", " "}

ToAsciiLowercase(c) ==
    IF IsAsciiUpperAlpha(c)
    THEN CharAt(LowerAlpha, CHOOSE i \in 1..Len(UpperAlpha) : CharAt(UpperAlpha, i) = c)
    ELSE c

EqIgnoreAsciiCase(a, b) == ToAsciiLowercase(a) = ToAsciiLowercase(b)

\* Number of bytes of a character in the UTF-8 source string.
Utf8Len(c) == IF c = "é" THEN 2 ELSE 1

RECURSIVE ByteLen(_)
ByteLen(s) == IF Len(s) = 0 THEN 0 ELSE Utf8Len(Head(s)) + ByteLen(Tail(s))

\* ------------------------------------------------------------------ tokens
NoAttributes == <<>>

NoToken == [type |-> "None", start |-> FALSE, tag_name |-> "",
            attributes |-> NoAttributes, self_closing |-> FALSE, ch |-> None]
EndOfFile == [NoToken EXCEPT !.type = "EndOfFile"]
Character(c) == [NoToken EXCEPT !.type = "Character", !.ch = c]
Tag(start, name) == [NoToken EXCEPT !.type = "Tag", !.start = start, !.tag_name = name]
Comment(data) == [NoToken EXCEPT !.type = "Comment", !.tag_name = data]
\* The DOCTYPE name is kept in tag_name; the identifiers are always None.
Doctype(name) == [NoToken EXCEPT !.type = "Doctype", !.tag_name = name]

IsStartTag(t) == t.type = "Tag" /\ t.start
IsEndTag(t) == ~IsStartTag(t)
IsTagWithName(t, names) == t.type = "Tag" /\ t.tag_name \in names
IsStartTagWithName(t, names) == IsStartTag(t) /\ IsTagWithName(t, names)
IsEndTagWithName(t, names) == IsEndTag(t) /\ IsTagWithName(t, names)

\* --------------------------------------------------------------- tokenizer
\* The tokenizer's fields other than html and tokens, as a record.
NewTokenizer ==
    [state |-> "Data", return_state |-> "Data",
     current_token |-> NoToken, insertion_point |-> 0]

\* html.chars().nth(insertion_point)
CurrentInputCharacter(h, ip) ==
    IF ip >= 0 /\ ip < Len(h) THEN CharAt(h, ip + 1) ELSE None

\* &html[insertion_point..]: insertion_point taken as a BYTE offset.  Not ok when
\* it is beyond the end of the string or inside a character (the slice panics).
ByteSlice(h, ip) ==
    LET cuts == {k \in 0..Len(h) : ByteLen(SubSeq(h, 1, k)) = ip}
    IN IF cuts = {} THEN [ok |-> FALSE, rest |-> ""]
       ELSE LET k == CHOOSE j \in cuts : TRUE
            IN [ok |-> TRUE, rest |-> SubSeq(h, k + 1, Len(h))]

\* chars().zip(word.chars()).all(..): zip stops at the shorter of the two.
ZipAll(rest, word, case_sensitive) ==
    LET n == IF Len(rest) < Len(word) THEN Len(rest) ELSE Len(word)
    IN \A i \in 1..n :
          IF case_sensitive
          THEN CharAt(rest, i) = CharAt(word, i)
          ELSE EqIgnoreAsciiCase(CharAt(rest, i), CharAt(word, i))

\* [panic, value]
NextFewInputCharactersAre(h, ip, word, case_sensitive) ==
    LET sl == ByteSlice(h, ip)
    IN IF ~sl.ok THEN [panic |-> TRUE, value |-> FALSE]
       ELSE [panic |-> FALSE, value |-> ZipAll(sl.rest, word, case_sensitive)]

SwitchTo(t, st) == [t EXCEPT !.state = st]
SetReturnState(t, st) == [t EXCEPT !.return_state = st]
SetCurrentToken(t, tok) == [t EXCEPT !.current_token = tok]
ConsumeNextInputCharacter(t) == [t EXCEPT !.insertion_point = @ + 1]
ConsumeWord(t, word) == [t EXCEPT !.insertion_point = @ + ByteLen(word)]
\* A reconsume that steps back over two characters.
ReconsumeTwoInState(t, st) ==
    [t EXCEPT !.insertion_point = @ - 2, !.state = st,
              !.reconsumed_at = t.insertion_point]

\* insertion_point is a usize: subtracting from 0 panics.  reconsumed_at keeps
\* the insertion point the call found.
ReconsumeInState(t, st) ==
    [t EXCEPT !.insertion_point = @ - 1, !.state = st,
              !.reconsumed_at = t.insertion_point]

\* Results of one iteration of the loop of Tokenizer::next.
Continue(t) == [t |-> t, emitted |-> NoToken, panic |-> (t.insertion_point < 0)]
EmitToken(t, tok) == [t |-> t, emitted |-> tok, panic |-> FALSE]
EmitCurrentToken(t) ==
    IF t.current_token # NoToken
    THEN EmitToken([t EXCEPT !.current_token = NoToken], t.current_token)
    ELSE Continue(t)
Todo(t) == [t |-> t, emitted |-> NoToken, panic |-> TRUE]

PushTagName(t, c) ==
    IF t.current_token.type = "Tag"
    THEN [t EXCEPT !.current_token.tag_name = Append(@, c)]
    ELSE t
PushDoctypeName(t, c) ==
    IF t.current_token.type = "Doctype"
    THEN [t EXCEPT !.current_token.tag_name = Append(@, c)]
    ELSE t
PushAttribute(t) ==
    IF t.current_token.type = "Tag"
    THEN [t EXCEPT !.current_token.attributes = Append(@, [name |-> "", value |-> ""])]
    ELSE t
PushAttributeName(t, c) ==
    IF t.current_token.type = "Tag" /\ Len(t.current_token.attributes) > 0
    THEN [t EXCEPT !.current_token.attributes[Len(t.current_token.attributes)].name =
                        Append(@, c)]
    ELSE t
PushAttributeValue(t, c) ==
    IF t.current_token.type = "Tag" /\ Len(t.current_token.attributes) > 0
    THEN [t EXCEPT !.current_token.attributes[Len(t.current_token.attributes)].value =
                        Append(@, c)]
    ELSE t

StateData(t, c) ==
    CASE c = "&" -> Continue(SwitchTo(SetReturnState(t, "Data"), "CharacterReference"))
      [] c = "<" -> Continue(SwitchTo(t, "TagOpen"))
      [] c = NUL -> Todo(t)
      [] c = None -> EmitToken(t, EndOfFile)
      [] OTHER -> EmitToken(t, Character(c))

StateTagOpen(t, c) ==
    CASE c = "!" -> Continue(SwitchTo(t, "MarkupDeclarationOpen"))
      [] c = "/" -> Continue(SwitchTo(t, "EndTagOpen"))
      [] IsAsciiAlpha(c) ->
            Continue(ReconsumeInState(SetCurrentToken(t, Tag(TRUE, "")), "TagName"))
      [] OTHER -> Todo(t)

StateEndTagOpen(t, c) ==
    CASE IsAsciiAlpha(c) ->
            Continue(ReconsumeInState(SetCurrentToken(t, Tag(FALSE, "")), "TagName"))
      [] OTHER -> Todo(t)

\* A tag name state that appends every character as it stands in the source.
StateTagNameAsIs(t, c) ==
    CASE IsTokenizerWhitespace(c) -> Continue(SwitchTo(t, "BeforeAttributeName"))
      [] c = "/" -> Continue(SwitchTo(t, "SelfClosingStartTag"))
      [] c = ">" -> EmitCurrentToken(SwitchTo(t, "Data"))
      [] c = NUL -> Todo(t)
      [] c = None -> Todo(t)
      [] OTHER -> Continue(PushTagName(t, c))

StateTagName(t, c) ==
    CASE IsTokenizerWhitespace(c) -> Continue(SwitchTo(t, "BeforeAttributeName"))
      [] c = "/" -> Continue(SwitchTo(t, "SelfClosingStartTag"))
      [] c = ">" -> EmitCurrentToken(SwitchTo(t, "Data"))
      [] c = NUL -> Todo(t)
      [] c = None -> Todo(t)
      [] OTHER -> Continue(PushTagName(t, ToAsciiLowercase(c)))

StateBeforeAttributeName(t, c) ==
    CASE IsTokenizerWhitespace(c) -> Continue(t)
      [] c \in {"/", "<", None} -> Continue(ReconsumeInState(t, "AfterAttributeName"))
      [] c = "=" -> Todo(t)
      [] OTHER -> Continue(ReconsumeInState(PushAttribute(t), "AttributeName"))

StateAttributeName(t, c) ==
    CASE IsTokenizerWhitespace(c) \/ c \in {"/", ">", None} ->
            Continue(ReconsumeInState(t, "AfterAttributeName"))
      [] c = "=" -> Continue(SwitchTo(t, "BeforeAttributeValue"))
      [] c = NUL -> Todo(t)
      [] c \in {"\"", "'", "<"} -> Todo(t)
      [] OTHER -> Continue(PushAttributeName(t, c))

StateBeforeAttributeValue(t, c) ==
    CASE IsTokenizerWhitespace(c) -> Continue(t)
      [] c = "\"" -> Continue(SwitchTo(t, "AttributeValueDoubleQuoted"))
      [] c = "'" -> Continue(SwitchTo(t, "AttributeValueSingleQuoted"))
      [] c = ">" -> Todo(t)
      [] OTHER -> Continue(ReconsumeInState(t, "AttributeValueUnquoted"))

StateAttributeValueDoubleQuoted(t, c) ==
    CASE c = "\"" -> Continue(SwitchTo(t, "AfterAttributeValueQuoted"))
      [] c = "&" ->
            Continue(SwitchTo(SetReturnState(t, "AttributeValueDoubleQuoted"),
                              "CharacterReference"))
      [] c = NUL -> Todo(t)
      [] c = None -> Todo(t)
      [] OTHER -> Continue(PushAttributeValue(t, c))

StateAfterAttributeValueQuoted(t, c) ==
    CASE IsTokenizerWhitespace(c) -> Continue(SwitchTo(t, "BeforeAttributeName"))
      [] c = "/" -> Continue(SwitchTo(t, "SelfClosingStartTag"))
      [] c = ">" -> EmitCurrentToken(SwitchTo(t, "Data"))
      [] OTHER -> Todo(t)

\* Consumes nothing itself; t is the tokenizer before the iteration.
StateMarkupDeclarationOpen(t, h) ==
    LET dashes == NextFewInputCharactersAre(h, t.insertion_point, "--", FALSE)
        doctype == NextFewInputCharactersAre(h, t.insertion_point, "DOCTYPE", TRUE)
    IN CASE dashes.panic -> Todo(t)
         [] dashes.value ->
               Continue(SwitchTo(SetCurrentToken(ConsumeWord(t, "--"), Comment("")),
                                 "CommentStart"))
         [] doctype.value -> Continue(SwitchTo(ConsumeWord(t, "DOCTYPE"), "Doctype"))
         [] OTHER -> Continue(t)

StateDoctype(t, c) ==
    CASE IsTokenizerWhitespace(c) -> Continue(SwitchTo(t, "BeforeDoctypeName"))
      [] c = ">" -> Continue(ReconsumeInState(t, "BeforeDoctypeName"))
      [] OTHER -> Todo(t)

\* t is the tokenizer after the character c was consumed, so that
\* current_input_character() is the character AFTER c.
StateBeforeDoctypeName(t, c, h) ==
    LET cur == CurrentInputCharacter(h, t.insertion_point)
    IN CASE IsTokenizerWhitespace(c) -> Continue(t)
         [] IsAsciiUpperAlpha(c) ->
               IF cur = None THEN Todo(t)
               ELSE Continue(SwitchTo(SetCurrentToken(t, Doctype(ToAsciiLowercase(cur))),
                                      "DoctypeName"))
         [] c \in {NUL, ">", None} -> Todo(t)
         [] OTHER -> Continue(SwitchTo(SetCurrentToken(t, Doctype(c)), "DoctypeName"))

StateDoctypeName(t, c, h) ==
    LET cur == CurrentInputCharacter(h, t.insertion_point)
    IN CASE IsTokenizerWhitespace(c) -> Continue(SwitchTo(t, "AfterDoctypeName"))
         [] c = ">" -> EmitCurrentToken(SwitchTo(t, "Data"))
         [] IsAsciiUpperAlpha(c) ->
               IF cur = None THEN Todo(t)
               ELSE Continue(PushDoctypeName(t, ToAsciiLowercase(cur)))
         [] c \in {NUL, None} -> Todo(t)
         [] OTHER -> Continue(PushDoctypeName(t, c))

StateAfterDoctypeName(t, c) ==
    CASE IsTokenizerWhitespace(c) -> Continue(t)
      [] c = ">" -> EmitCurrentToken(SwitchTo(t, "Data"))
      [] OTHER -> Todo(t)

\* One iteration of `while emitted_token.is_none()` of Tokenizer::next.
TokenizerIteration(t, h) ==
    LET c == CurrentInputCharacter(h, t.insertion_point)
        t1 == ConsumeNextInputCharacter(t)
    IN CASE t.state = "Data" -> StateData(t1, c)
         [] t.state = "TagOpen" -> StateTagOpen(t1, c)
         [] t.state = "EndTagOpen" -> StateEndTagOpen(t1, c)
         [] t.state = "TagName" -> StateTagName(t1, c)
         [] t.state = "BeforeAttributeName" -> StateBeforeAttributeName(t1, c)
         [] t.state = "AttributeName" -> StateAttributeName(t1, c)
         [] t.state = "BeforeAttributeValue" -> StateBeforeAttributeValue(t1, c)
         [] t.state = "AttributeValueDoubleQuoted" -> StateAttributeValueDoubleQuoted(t1, c)
         [] t.state = "AfterAttributeValueQuoted" -> StateAfterAttributeValueQuoted(t1, c)
         [] t.state = "MarkupDeclarationOpen" -> StateMarkupDeclarationOpen(t, h)
         [] t.state = "Doctype" -> StateDoctype(t1, c)
         [] t.state = "BeforeDoctypeName" -> StateBeforeDoctypeName(t1, c, h)
         [] t.state = "DoctypeName" -> StateDoctypeName(t1, c, h)
         [] t.state = "AfterDoctypeName" -> StateAfterDoctypeName(t1, c)
         [] OTHER -> Todo(t)

\* ------------------------------------------------------------------- arena
\* Option<NodeId>::None
NoneId == 0 - 1

HtmlNamespace == "http://www.w3.org/1999/xhtml"

BlankNode ==
    [kind |-> "Document", namespace_uri |-> None, tag_name |-> "", data |-> "",
     name |-> "", public_id |-> "", system_id |-> "",
     document |-> NoneId, children |-> <<>>, parent |-> NoneId]

CreateDocument == BlankNode
CreateElement(document, local_name) ==
    [BlankNode EXCEPT !.kind = "Element", !.namespace_uri = HtmlNamespace,
                      !.tag_name = local_name, !.document = document]
CreateText(document, data) ==
    [BlankNode EXCEPT !.kind = "Text", !.data = data, !.document = document]
CreateDoctype(document, name, public_id, system_id) ==
    [BlankNode EXCEPT !.kind = "DocumentType", !.name = name, !.public_id = public_id,
                      !.system_id = system_id, !.document = document]

\* An arena is the sequence of its nodes; node id n is element n + 1.
NewArena == <<>>
NodeIds(a) == 0..(Len(a) - 1)
GetNode(a, id) == a[id + 1]
\* The id create_node returns for the node it pushes.
NextNodeId(a) == Len(a)
CreateNode(a, node) == Append(a, node)

\* nodes.iter().position(|n| n == node).unwrap(): the FIRST structurally equal node.
GetNodeId(a, node) == CHOOSE i \in NodeIds(a) :
    a[i + 1] = node /\ \A j \in NodeIds(a) : a[j + 1] = node => i <= j

NodeDocument(a, id) ==
    IF GetNode(a, id).document # NoneId
    THEN GetNode(a, id).document
    ELSE GetNodeId(a, GetNode(a, id))

IsDocument(n) == n.kind = "Document"
IsElement(n) == n.kind = "Element"
IsElementInNamespace(n, ns) == n.kind = "Element" /\ n.namespace_uri = ns
IsElementWithTagName(n, tag_name) == n.kind = "Element" /\ n.tag_name = tag_name
IsElementWithOneOfTagNames(n, tag_names) == n.kind = "Element" /\ n.tag_name \in tag_names

\* 1-based position of x in sequence s, 0 when absent.
Position(s, x) ==
    IF \E i \in 1..Len(s) : s[i] = x
    THEN CHOOSE i \in 1..Len(s) : s[i] = x /\ \A j \in 1..(i - 1) : s[j] # x
    ELSE 0

InsertAt(s, i, x) == SubSeq(s, 1, i - 1) \o <<x>> \o SubSeq(s, i, Len(s))
RemoveAt(s, i) == SubSeq(s, 1, i - 1) \o SubSeq(s, i + 1, Len(s))

\* Results of the arena's mutations: the new arena, or a panic.
ArenaOk(a) == [arena |-> a, panic |-> FALSE]
ArenaPanic(a) == [arena |-> a, panic |-> TRUE]

\* NodeArena::adopt
Adopt(a, node, document) ==
    LET old_document == NodeDocument(a, node)
        children == GetNode(a, node).children
    IN IF GetNode(a, node).parent # NoneId THEN ArenaPanic(a)
       ELSE IF document # old_document
       THEN ArenaOk([i \in 1..Len(a) |->
                       IF \E k \in 1..Len(children) : children[k] = i - 1
                       THEN [a[i] EXCEPT !.document = document]
                       ELSE a[i]])
       ELSE ArenaOk(a)

\* NodeArena::insert
\* An insert that leaves the parent's children as they are.
ArenaInsertNothing(a, node, into_parent, before_child) == ArenaOk(a)

ArenaInsert(a, node, into_parent, before_child) ==
    LET adopted == Adopt(a, node, NodeDocument(a, into_parent))
        b == adopted.arena
        index == Position(GetNode(b, into_parent).children, before_child)
    IN IF adopted.panic THEN adopted
       ELSE IF before_child # NoneId
       THEN IF index = 0 THEN ArenaPanic(b)
            ELSE ArenaOk([b EXCEPT ![into_parent + 1].children = InsertAt(@, index, node)])
       ELSE ArenaOk([b EXCEPT ![into_parent + 1].children = Append(@, node)])

\* NodeArena::pre_insert
PreInsert(a, node, into_parent, before_child) ==
    ArenaInsert(a, node, into_parent, before_child)

\* NodeArena::append
ArenaAppend(a, node, into_parent) == PreInsert(a, node, into_parent, NoneId)

PreviousSibling(a, node) ==
    LET parent == GetNode(a, node).parent
        index == Position(GetNode(a, parent).children, node)
    IN IF parent # NoneId /\ index > 1
       THEN GetNode(a, parent).children[index - 1]
       ELSE NoneId

NextSibling(a, node) ==
    LET parent == GetNode(a, node).parent
        children == GetNode(a, parent).children
        index == Position(children, node)
    IN IF parent # NoneId /\ index > 0 /\ index < Len(children)
       THEN children[index + 1]
       ELSE NoneId

\* ---------------------------------------------------- stack of open elements
SPECIAL_TAGS ==
    {"address", "applet", "area", "article", "aside", "base", "basefont", "bgsound",
     "blockquote", "body", "br", "button", "caption", "center", "col", "colgroup",
     "dd", "details", "dir", "div", "dl", "dt", "embed", "fieldset", "figcaption",
     "figure", "footer", "form", "frame", "frameset", "h1", "h2", "h3", "h4", "h5",
     "h6", "head", "header", "hgroup", "hr", "html", "iframe", "img", "input",
     "keygen", "li", "link", "listing", "main", "marquee", "menu", "meta", "nav",
     "noembed", "noframes", "noscript", "object", "ol", "p", "param", "plaintext",
     "pre", "script", "search", "section", "select", "source", "style", "summary",
     "table", "tbody", "td", "template", "textarea", "tfoot", "th", "thead", "title",
     "tr", "track", "ul", "wbr", "xmp"}

BASE_SCOPE_TAGS ==
    {"applet", "caption", "html", "table", "td", "th", "marquee", "object", "template",
     "mi", "mo", "mn", "ms", "mtext", "annotation-xml", "foreignObject", "desc", "title"}

\* A stack is the sequence `elements`; its last element is the current node.
NewStack == <<>>
StackIsEmpty(st) == Len(st) = 0
StackContains(st, node) == \E i \in 1..Len(st) : st[i] = node
\* Callers panic on an empty stack (the expect() of current_node).
CurrentNode(st) == st[Len(st)]
AdjustedCurrentNode(st) == CurrentNode(st)
\* A push of the id after the element's.
StackPushNext(st, element) == Append(st, element + 1)
StackPush(st, element) == Append(st, element)
StackPop(st) == IF Len(st) = 0 THEN st ELSE SubSeq(st, 1, Len(st) - 1)

RECURSIVE PopUntilElementWithTagName(_, _, _)
PopUntilElementWithTagName(a, st, tag_name) ==
    IF Len(st) = 0 THEN st
    ELSE IF IsElementWithTagName(GetNode(a, CurrentNode(st)), tag_name)
    THEN StackPop(st)
    ELSE PopUntilElementWithTagName(a, StackPop(st), tag_name)

\* A walk that looks for an element of the list before it looks for the target.
HasElementInSpecificScopeListFirst(a, st, target_node, tag_names) ==
    LET met == {i \in 1..Len(st) :
                   IsElementWithOneOfTagNames(GetNode(a, st[i]),
                                              tag_names \cup {target_node})}
        first == CHOOSE i \in met : \A j \in met : j <= i
    IN IF met = {} THEN [panic |-> TRUE, value |-> FALSE]
       ELSE [panic |-> FALSE,
             value |-> ~IsElementWithOneOfTagNames(GetNode(a, st[first]), tag_names)]

\* [panic, value]; the panic is the unreachable!() after the loop.
RECURSIVE HasElementInSpecificScope(_, _, _, _)
HasElementInSpecificScope(a, st, target_node, tag_names) ==
    IF Len(st) = 0 THEN [panic |-> TRUE, value |-> FALSE]
    ELSE LET node == GetNode(a, CurrentNode(st))
         IN IF IsElementWithTagName(node, target_node)
            THEN [panic |-> FALSE, value |-> TRUE]
            ELSE IF \E tag_name \in tag_names : IsElementWithTagName(node, tag_name)
            THEN [panic |-> FALSE, value |-> FALSE]
            ELSE HasElementInSpecificScope(a, StackPop(st), target_node, tag_names)

HasElementInScope(a, st, element) ==
    HasElementInSpecificScope(a, st, element, BASE_SCOPE_TAGS)
HasElementInListScope(a, st, element) ==
    HasElementInSpecificScope(a, st, element, BASE_SCOPE_TAGS \cup {"ol", "ul"})
HasElementInButtonScope(a, st, element) ==
    HasElementInSpecificScope(a, st, element, BASE_SCOPE_TAGS \cup {"button"})
HasElementInTableScope(a, st, element) ==
    HasElementInSpecificScope(a, st, element,
                              BASE_SCOPE_TAGS \cup {"html", "table", "template"})

StackInsertImmediatelyBelow(st, element, target) ==
    IF Position(st, target) # 0 THEN InsertAt(st, Position(st, target) + 1, element) ELSE st
StackReplace(st, target, replacement) ==
    IF Position(st, target) # 0 THEN [st EXCEPT ![Position(st, target)] = replacement] ELSE st
StackRemoveElement(st, element) ==
    IF Position(st, element) # 0 THEN RemoveAt(st, Position(st, element)) ELSE st

\* Walking from the current node down: the first entry other than target met after
\* target was met.  NoneId when there is none.
ElementImmediatelyAbove(st, target) ==
    LET found == {i \in 1..Len(st) : st[i] = target}
        top == CHOOSE i \in found : \A j \in found : j <= i
        above == {j \in 1..(top - 1) : st[j] # target}
    IN IF found = {} \/ above = {} THEN NoneId
       ELSE st[CHOOSE j \in above : \A k \in above : k <= j]

\* Walking from the current node down to target: the last special element met.
TopmostSpecialNodeBelow(a, st, target) ==
    LET found == {i \in 1..Len(st) : st[i] = target}
        top == IF found = {} THEN 0 ELSE CHOOSE i \in found : \A j \in found : j <= i
        special == {j \in (top + 1)..Len(st) :
                       IsElementWithOneOfTagNames(GetNode(a, st[j]), SPECIAL_TAGS)}
    IN IF special = {} THEN NoneId
       ELSE st[CHOOSE j \in special : \A k \in special : j <= k]

\* ------------------------------------------------ active formatting elements
Marker == [kind |-> "Marker", id |-> NoneId]
Element(id) == [kind |-> "Element", id |-> id]
NewActiveFormattingElements == <<>>

\* TRUE when reconstruct reaches its todo!(); it changes nothing otherwise.
ReconstructPanics(afe, st) ==
    /\ Len(afe) # 0
    /\ afe[Len(afe)] # Marker
    /\ ~StackContains(st, afe[Len(afe)].id)

\* A reconstruct that forgets the last entry of the list.
ReconstructDropsLast(afe, open_elements) ==
    [elements |-> IF Len(afe) = 0 THEN afe ELSE SubSeq(afe, 1, Len(afe) - 1),
     panic |-> ReconstructPanics(afe, open_elements)]

\* ActiveFormattingElements::reconstruct: the list it leaves, and whether it
\* reached its todo!().  It takes the stack by shared reference and no arena.
Reconstruct(afe, open_elements) ==
    [elements |-> afe, panic |-> ReconstructPanics(afe, open_elements)]

AfePush(afe, element) == Append(afe, element)
\* 0-based, NoneId when absent
AfeFirstIndexOf(afe, target) == Position(afe, Element(target)) - 1
AfeReplace(afe, target, replacement) ==
    IF Position(afe, Element(target)) # 0
    THEN [afe EXCEPT ![Position(afe, Element(target))] = Element(replacement)]
    ELSE afe
\* Vec::insert panics when index > len; callers check.
AfeInsert(afe, index, element) == InsertAt(afe, index + 1, Element(element))
\* A remove that leaves the list as it is.
AfeRemoveNothing(afe, element) == afe

AfeRemove(afe, element) ==
    IF Position(afe, Element(element)) # 0
    THEN RemoveAt(afe, Position(afe, Element(element)))
    ELSE afe
AfeContains(afe, target) == \E i \in 1..Len(afe) : afe[i] = Element(target)

LastElementWithTagNameBeforeMarker(a, afe, tag_name) ==
    LET markers == {i \in 1..Len(afe) : afe[i] = Marker}
        lastm == IF markers = {} THEN 0 ELSE CHOOSE i \in markers : \A j \in markers : j <= i
        hits == {i \in (lastm + 1)..Len(afe) :
                    IsElementWithTagName(GetNode(a, afe[i].id), tag_name)}
    IN IF hits = {} THEN NoneId
       ELSE afe[CHOOSE i \in hits : \A j \in hits : j <= i].id

\* ------------------------------------------------------------------ parser
\* The parser's fields as a record p, with the arena it borrows, the tokenizer
\* state it may switch, the messages given to error(), and two results of a
\* dispatch: panic (the run aborted) and run_adoption (the adoption agency
\* algorithm's loops are to run for the token).
scripting == FALSE
foster_parenting == FALSE

IsParserWhitespace(token) ==
    token.type = "Character" /\ token.ch \in {"\t", "\n", "\f", "\r", " "}

Error(p, message) == [p EXCEPT !.errors = Append(@, message)]
Panic(p) == [p EXCEPT !.panic = TRUE]
StopParsing(p) == [p EXCEPT !.should_stop_parsing = TRUE]
\* A switch of the insertion mode that also stops the parser.
SwitchInsertionModeAndStop(p, insertion_mode) ==
    StopParsing([p EXCEPT !.insertion_mode = insertion_mode])
SwitchInsertionMode(p, insertion_mode) == [p EXCEPT !.insertion_mode = insertion_mode]
SwitchInsertionModeAndReprocessToken(p, insertion_mode) ==
    SwitchInsertionMode([p EXCEPT !.should_reprocess_token = TRUE], insertion_mode)
PopCurrentNode(p) == [p EXCEPT !.stack_of_open_elements = StackPop(@)]
WithArena(p, r) == [p EXCEPT !.arena = r.arena, !.panic = r.panic]

\* Parser::appropriate_place_for_inserting_node; called with a non-empty stack
\* or an override target.
AppropriatePlaceForInsertingNode(p, override_target) ==
    [parent |-> IF override_target # NoneId THEN override_target
                ELSE CurrentNode(p.stack_of_open_elements),
     after_child |-> NoneId]

\* InsertionLocation::insert_element
InsertElement(p, location, element) ==
    WithArena(p, ArenaInsert(p.arena, element, location.parent, location.after_child))

\* Parser::create_element_for_token; the new element's id is NextNodeId(p.arena).
CreateElementForToken(p, token, intended_parent) ==
    IF token.type # "Tag" THEN Panic(p)
    ELSE [p EXCEPT !.arena =
            CreateNode(@, CreateElement(NodeDocument(p.arena, intended_parent),
                                        token.tag_name))]

\* An insert_foreign_element that only adds the element to the stack.
InsertForeignElementOnlyOnStack(p, token, only_add_to_element_stack) ==
    IF p.panic \/ (foster_parenting \/ StackIsEmpty(p.stack_of_open_elements)) THEN Panic(p)
    ELSE LET location == AppropriatePlaceForInsertingNode(p, NoneId)
             p1 == CreateElementForToken(p, token, location.parent)
         IN IF p1.panic THEN p1
            ELSE [p1 EXCEPT !.stack_of_open_elements = StackPush(@, NextNodeId(p.arena))]

\* Parser::insert_foreign_element
InsertForeignElement(p, token, only_add_to_element_stack) ==
    IF p.panic \/ (foster_parenting \/ StackIsEmpty(p.stack_of_open_elements)) THEN Panic(p)
    ELSE LET location == AppropriatePlaceForInsertingNode(p, NoneId)
             element == NextNodeId(p.arena)
             p1 == CreateElementForToken(p, token, location.parent)
             p2 == IF p1.panic \/ only_add_to_element_stack THEN p1
                   ELSE InsertElement(p1, location, element)
         IN IF p2.panic THEN p2
            ELSE [p2 EXCEPT !.stack_of_open_elements = StackPush(@, element)]

\* Parser::insert_html_element
InsertHtmlElement(p, token) == InsertForeignElement(p, token, FALSE)

\* An insert_character that leaves a Text node before the insertion location
\* as it is.
InsertCharacterNotAppended(p, data) ==
    IF p.panic \/ (foster_parenting \/ StackIsEmpty(p.stack_of_open_elements)) THEN Panic(p)
    ELSE LET location == AppropriatePlaceForInsertingNode(p, NoneId)
             parent == GetNode(p.arena, location.parent)
         IN IF \/ IsDocument(parent)
               \/ /\ Len(parent.children) > 0
                  /\ GetNode(p.arena, parent.children[Len(parent.children)]).kind = "Text"
            THEN p
            ELSE InsertElement(
                   [p EXCEPT !.arena =
                      CreateNode(@, CreateText(NodeDocument(p.arena, location.parent), data))],
                   location, NextNodeId(p.arena))

\* An insert_character that creates a Text node for every character.
InsertCharacterInNewTextNode(p, data) ==
    IF p.panic \/ (foster_parenting \/ StackIsEmpty(p.stack_of_open_elements)) THEN Panic(p)
    ELSE LET location == AppropriatePlaceForInsertingNode(p, NoneId)
             parent == GetNode(p.arena, location.parent)
         IN IF IsDocument(parent) THEN p
            ELSE InsertElement(
                   [p EXCEPT !.arena =
                      CreateNode(@, CreateText(NodeDocument(p.arena, location.parent), data))],
                   location, NextNodeId(p.arena))

\* Parser::insert_character
InsertCharacter(p, data) ==
    IF p.panic \/ (foster_parenting \/ StackIsEmpty(p.stack_of_open_elements)) THEN Panic(p)
    ELSE LET location == AppropriatePlaceForInsertingNode(p, NoneId)
             parent == GetNode(p.arena, location.parent)
             before == IF location.after_child # NoneId
                       THEN PreviousSibling(p.arena, location.after_child)
                       ELSE IF Len(parent.children) > 0
                            THEN parent.children[Len(parent.children)]
                            ELSE NoneId
             text_node_id == NextNodeId(p.arena)
         IN IF IsDocument(parent) THEN p
            ELSE IF before # NoneId /\ GetNode(p.arena, before).kind = "Text"
            THEN [p EXCEPT !.arena[before + 1].data = Append(@, data)]
            ELSE InsertElement(
                   [p EXCEPT !.arena =
                      CreateNode(@, CreateText(NodeDocument(p.arena, location.parent), data))],
                   location, text_node_id)

\* Parser::generate_implied_end_tags_except_for
RECURSIVE GenerateImpliedEndTagsExceptFor(_, _)
GenerateImpliedEndTagsExceptFor(p, except) ==
    IF p.panic \/ StackIsEmpty(p.stack_of_open_elements) THEN Panic(p)
    ELSE LET node == GetNode(p.arena, CurrentNode(p.stack_of_open_elements))
         IN IF IsElementWithTagName(node, except) THEN p
            ELSE IF ~IsElementWithOneOfTagNames(node,
                        {"dd", "dt", "li", "optgroup", "option", "p", "rb", "rp", "rt", "rtc"})
            THEN p
            ELSE GenerateImpliedEndTagsExceptFor(PopCurrentNode(p), except)

\* A close_p_element that generates no implied end tags.
ClosePElementWithoutImpliedEndTags(p) ==
    LET p2 == IF ~IsElementWithTagName(
                     GetNode(p.arena, CurrentNode(p.stack_of_open_elements)), "p")
              THEN Error(p, "Expected current node to be a p element while closing a p element")
              ELSE p
    IN [p2 EXCEPT !.stack_of_open_elements =
            PopUntilElementWithTagName(p2.arena, @, "p")]

\* Parser::close_p_element
ClosePElement(p) ==
    LET p1 == GenerateImpliedEndTagsExceptFor(p, "p")
        p2 == IF ~IsElementWithTagName(
                     GetNode(p1.arena, CurrentNode(p1.stack_of_open_elements)), "p")
              THEN Error(p1, "Expected current node to be a p element while closing a p element")
              ELSE p1
    IN IF p1.panic THEN p1
       ELSE [p2 EXCEPT !.stack_of_open_elements =
               PopUntilElementWithTagName(p2.arena, @, "p")]

\* A follow_generic_parsing_algorithm that leaves the tokenizer in its state.
FollowGenericParsingAlgorithmInData(p, token, algorithm) ==
    LET p1 == InsertHtmlElement(p, token)
    IN IF p1.panic THEN p1
       ELSE SwitchInsertionMode(
              [p1 EXCEPT !.original_insertion_mode = p1.insertion_mode],
              "Text")

\* Parser::follow_generic_parsing_algorithm
FollowGenericParsingAlgorithm(p, token, algorithm) ==
    LET p1 == InsertHtmlElement(p, token)
    IN IF p1.panic THEN p1
       ELSE SwitchInsertionMode(
              [p1 EXCEPT !.tokenizer_state = algorithm,
                         !.original_insertion_mode = p1.insertion_mode],
              "Text")

\* Parser::is_in_foreign_content
IsInForeignContent(p, token) ==
    IF StackIsEmpty(p.stack_of_open_elements) THEN FALSE
    ELSE IF IsElementInNamespace(
              GetNode(p.arena, AdjustedCurrentNode(p.stack_of_open_elements)), HtmlNamespace)
    THEN FALSE
    ELSE token # EndOfFile

\* ----------------------------------------------------------- insertion modes
InsertionModes ==
    {"Initial", "BeforeHtml", "BeforeHead", "InHead", "InHeadNoScript", "AfterHead",
     "InBody", "Text", "InTable", "InTableText", "InCaption", "InColumnGroup",
     "InTableBody", "InRow", "InCell", "InSelect", "InSelectInTable", "InTemplate",
     "AfterBody", "InFrameset", "AfterFrameset", "AfterAfterBody", "AfterAfterFrameset"}

BlockStartTags ==
    {"address", "article", "aside", "blockquote", "center", "details", "dialog", "dir",
     "div", "dl", "fieldset", "figcaption", "figure", "footer", "header", "hgroup",
     "main", "menu", "nav", "ol", "p", "search", "section", "summary", "ul"}
HeadingTags == {"h1", "h2", "h3", "h4", "h5", "h6"}
FormattingEndTags ==
    {"a", "b", "big", "code", "em", "font", "i", "nobr", "s", "small", "strike",
     "strong", "tt", "u"}

\* The steps of run_adoption_agency_algorithm before its outer loop.
AdoptionAgencyEntry(p, token) ==
    IF StackIsEmpty(p.stack_of_open_elements) THEN Panic(p)
    ELSE LET current_node == CurrentNode(p.stack_of_open_elements)
         IN IF /\ IsElementWithTagName(GetNode(p.arena, current_node), token.tag_name)
               /\ ~AfeContains(p.active_formatting_elements, current_node)
            THEN PopCurrentNode(p)
            ELSE [p EXCEPT !.run_adoption = TRUE]

\* A block start tag that never closes the open p element.
ClosePNever(p) == p

\* If the stack of open elements has a p element in button scope, close a p element.
ClosePIfInButtonScope(p) ==
    LET scope == HasElementInButtonScope(p.arena, p.stack_of_open_elements, "p")
    IN IF scope.panic THEN Panic(p)
       ELSE IF scope.value THEN ClosePElement(p)
       ELSE p

InBodyCharacter(p, token) ==
    LET r == Reconstruct(p.active_formatting_elements, p.stack_of_open_elements)
        p1 == InsertCharacter([p EXCEPT !.active_formatting_elements = r.elements],
                              token.ch)
    IN IF r.panic THEN Panic(p)
       ELSE IF IsParserWhitespace(token) THEN p1
       ELSE [p1 EXCEPT !.frameset_ok = FALSE]

InBodyBlockStartTag(p, token) == InsertHtmlElement(ClosePIfInButtonScope(p), token)

InBodyHeadingStartTag(p, token) ==
    LET p1 == ClosePIfInButtonScope(p)
    IN IF p1.panic \/ StackIsEmpty(p1.stack_of_open_elements) THEN Panic(p1)
       ELSE IF IsElementWithOneOfTagNames(
                 GetNode(p1.arena, CurrentNode(p1.stack_of_open_elements)), HeadingTags)
       THEN InsertHtmlElement(PopCurrentNode(Error(p1, "Unexpected tag")), token)
       ELSE InsertHtmlElement(p1, token)

InBodyEndTagP(p) ==
    LET scope == HasElementInButtonScope(p.arena, p.stack_of_open_elements, "p")
    IN IF scope.panic THEN Panic(p)
       ELSE IF ~scope.value
       THEN ClosePElement(InsertHtmlElement(Error(p, "Expected p element in button scope"),
                                            Tag(TRUE, "p")))
       ELSE ClosePElement(p)

InBodyStartTagA(p, token) ==
    LET r == Reconstruct(p.active_formatting_elements, p.stack_of_open_elements)
        element == NextNodeId(p.arena)
        p1 == InsertHtmlElement([p EXCEPT !.active_formatting_elements = r.elements],
                                token)
    IN IF r.panic THEN Panic(p)
       ELSE IF p1.panic THEN p1
       ELSE [p1 EXCEPT !.active_formatting_elements = AfePush(@, Element(element))]

\* Parser::process_token calls itself for "process the token using the rules
\* for" another insertion mode.
RECURSIVE ProcessToken(_, _, _)

\* process_token(InsertionMode::InBody, token)
ProcessInBody(p, token) ==
    CASE token = Character(NUL) -> Error(p, "Unexpected null character")
      [] token.type = "Character" -> InBodyCharacter(p, token)
      [] token.type = "Comment" -> Panic(p)
      [] token.type = "Doctype" -> Error(p, "Unexpected DOCTYPE")
      [] IsStartTagWithName(token, {"html"}) -> Panic(p)
      [] IsStartTagWithName(token, {"base", "basefont", "bgsound", "link", "meta",
                                    "noframes", "script", "style", "template", "title"}) ->
            Panic(p)
      [] token.type = "Tag" /\ IsEndTagWithName(token, {"template"}) -> Panic(p)
      [] IsStartTagWithName(token, {"body", "frameset"}) -> Panic(p)
      [] token = EndOfFile -> StopParsing(p)
      [] token.type = "Tag" /\ IsEndTagWithName(token, {"body"}) ->
            SwitchInsertionMode(p, "AfterBody")
      [] token.type = "Tag" /\ IsEndTagWithName(token, {"html"}) -> Panic(p)
      [] IsStartTagWithName(token, BlockStartTags) -> InBodyBlockStartTag(p, token)
      [] IsStartTagWithName(token, HeadingTags) -> InBodyHeadingStartTag(p, token)
      [] token.type = "Tag" /\ IsEndTagWithName(token, {"p"}) -> InBodyEndTagP(p)
      [] IsStartTagWithName(token, {"a"}) -> InBodyStartTagA(p, token)
      [] token.type = "Tag" /\ IsEndTagWithName(token, FormattingEndTags) ->
            AdoptionAgencyEntry(p, token)
      [] OTHER -> Panic(p)

\* An Initial mode that treats a DOCTYPE like any other token.
ProcessInitialWithoutDoctype(p, token) ==
    CASE IsParserWhitespace(token) -> p
      [] token.type = "Comment" -> Panic(p)
      [] OTHER -> SwitchInsertionModeAndReprocessToken(p, "BeforeHtml")

\* process_token(InsertionMode::Initial, token)
ProcessInitial(p, token) ==
    CASE IsParserWhitespace(token) -> p
      [] token.type = "Comment" -> Panic(p)
      [] token.type = "Doctype" ->
            LET p1 == IF token.tag_name # "html" THEN Error(p, "Invalid DOCTYPE") ELSE p
                doctype == NextNodeId(p1.arena)
                p2 == [p1 EXCEPT !.arena =
                          CreateNode(@, CreateDoctype(p1.document, token.tag_name, "", ""))]
            IN SwitchInsertionMode(
                 WithArena(p2, ArenaAppend(p2.arena, doctype, p2.document)), "BeforeHtml")
      [] OTHER -> SwitchInsertionModeAndReprocessToken(p, "BeforeHtml")

\* process_token(InsertionMode::BeforeHtml, token)
ProcessBeforeHtml(p, token) ==
    CASE token.type = "Doctype" -> Error(p, "Unexpected DOCTYPE")
      [] token.type = "Comment" -> Panic(p)
      [] IsParserWhitespace(token) -> p
      [] IsStartTagWithName(token, {"html"}) ->
            LET html_element == NextNodeId(p.arena)
                p1 == CreateElementForToken(p, token, p.document)
                p2 == WithArena(p1, ArenaAppend(p1.arena, html_element, p1.document))
            IN IF p2.panic THEN p2
               ELSE SwitchInsertionMode(
                      [p2 EXCEPT !.stack_of_open_elements = StackPush(@, html_element)],
                      "BeforeHead")
      [] token.type = "Tag" /\ IsEndTagWithName(token, {"head", "body", "html", "br"}) ->
            Panic(p)
      [] token.type = "Tag" /\ IsEndTag(token) -> Error(p, "Unexpected end tag")
      [] OTHER -> SwitchInsertionModeAndReprocessToken(p, "BeforeHead")

\* process_token(InsertionMode::InHead, token)
ProcessInHead(p, token) ==
    CASE IsParserWhitespace(token) -> InsertCharacter(p, token.ch)
      [] token.type = "Comment" -> Panic(p)
      [] token.type = "Doctype" -> Error(p, "Unexpected DOCTYPE")
      [] IsStartTagWithName(token, {"html"}) -> ProcessToken(p, "InBody", token)
      [] IsStartTagWithName(token, {"base", "basefont", "bgsound", "link", "meta"}) ->
            LET p1 == InsertHtmlElement(p, token)
            IN IF p1.panic THEN p1 ELSE PopCurrentNode(p1)
      [] IsStartTagWithName(token, {"title"}) ->
            FollowGenericParsingAlgorithm(p, token, "RcData")
      [] (IsStartTagWithName(token, {"noscript"}) /\ scripting)
            \/ IsStartTagWithName(token, {"noframes", "style"}) ->
            FollowGenericParsingAlgorithm(p, token, "RawText")
      [] IsStartTagWithName(token, {"script"}) -> Panic(p)
      [] token.type = "Tag" /\ IsEndTagWithName(token, {"head"}) ->
            SwitchInsertionMode(PopCurrentNode(p), "AfterHead")
      [] token.type = "Tag" /\ IsEndTagWithName(token, {"body", "html", "br"}) -> Panic(p)
      [] token.type = "Tag" /\ IsTagWithName(token, {"template"}) -> Panic(p)
      [] token.type = "Tag" /\ (IsStartTagWithName(token, {"head"}) \/ IsEndTag(token)) ->
            Error(p, "Unexpected tag")
      [] OTHER -> SwitchInsertionModeAndReprocessToken(p, "AfterHead")

\* process_token(InsertionMode::BeforeHead, token)
ProcessBeforeHead(p, token) ==
    CASE IsParserWhitespace(token) -> p
      [] token.type = "Comment" -> Panic(p)
      [] token.type = "Doctype" -> Error(p, "Unexpected DOCTYPE")
      [] IsStartTagWithName(token, {"html"}) -> ProcessToken(p, "InBody", token)
      [] IsStartTagWithName(token, {"head"}) ->
            LET head == NextNodeId(p.arena)
                p1 == InsertHtmlElement(p, token)
            IN IF p1.panic THEN p1
               ELSE SwitchInsertionMode([p1 EXCEPT !.head_element = head], "InHead")
      [] token.type = "Tag" /\ IsEndTagWithName(token, {"head", "body", "html", "br"}) ->
            Panic(p)
      [] token.type = "Tag" /\ IsEndTag(token) -> Error(p, "Unexpected end tag")
      [] OTHER -> Panic(p)

\* process_token(InsertionMode::AfterHead, token)
ProcessAfterHead(p, token) ==
    CASE IsParserWhitespace(token) -> InsertCharacter(p, token.ch)
      [] token.type = "Comment" -> Panic(p)
      [] token.type = "Doctype" -> Error(p, "Unexpected DOCTYPE")
      [] IsStartTagWithName(token, {"html"}) -> ProcessToken(p, "InBody", token)
      [] IsStartTagWithName(token, {"body"}) ->
            LET p1 == InsertHtmlElement(p, token)
            IN IF p1.panic THEN p1
               ELSE SwitchInsertionMode([p1 EXCEPT !.frameset_ok = FALSE], "InBody")
      [] IsStartTagWithName(token, {"frameset"}) ->
            LET p1 == InsertHtmlElement(p, token)
            IN IF p1.panic THEN p1 ELSE SwitchInsertionMode(p1, "InFrameset")
      [] IsStartTagWithName(token, {"base", "basefont", "bgsound", "link", "meta",
                                    "noframes", "script", "style", "template", "title"}) ->
            Panic(p)
      [] token.type = "Tag" /\ IsEndTagWithName(token, {"template"}) ->
            ProcessToken(p, "InHead", token)
      [] token.type = "Tag" /\ IsEndTagWithName(token, {"body", "html", "br"}) -> Panic(p)
      [] token.type = "Tag" /\ (IsStartTagWithName(token, {"head"}) \/ IsEndTag(token)) ->
            Error(p, "Unexpected tag")
      [] OTHER ->
            LET p1 == InsertHtmlElement(p, Tag(TRUE, "body"))
            IN IF p1.panic THEN p1 ELSE SwitchInsertionModeAndReprocessToken(p1, "InBody")

\* process_token(InsertionMode::Text, token)
ProcessText(p, token) ==
    CASE token.type = "Character" -> InsertCharacter(p, token.ch)
      [] token = EndOfFile ->
            LET p1 == PopCurrentNode(Error(p, "Unexpected end of file"))
            IN SwitchInsertionModeAndReprocessToken(p1, p1.original_insertion_mode)
      [] token.type = "Tag" /\ IsEndTagWithName(token, {"script"}) -> Panic(p)
      [] OTHER ->
            LET p1 == PopCurrentNode(p)
            IN SwitchInsertionMode(p1, p1.original_insertion_mode)

\* process_token(InsertionMode::AfterAfterBody, token): the guard of the arm
\* `whitespace!() | Token::Tag { .. } if is_start_tag_with_name(["html"])`
\* applies to both alternatives, so whitespace never takes that arm.
ProcessAfterAfterBody(p, token) ==
    CASE token.type \in {"Comment", "Doctype"} -> Panic(p)
      [] (IsParserWhitespace(token) \/ token.type = "Tag")
            /\ IsStartTagWithName(token, {"html"}) -> ProcessToken(p, "InBody", token)
      [] token = EndOfFile -> StopParsing(p)
      [] OTHER -> SwitchInsertionMode(Error(p, "Unexpected token"), "InBody")

\* process_token(InsertionMode::AfterBody, token)
ProcessAfterBody(p, token) ==
    CASE IsParserWhitespace(token) -> ProcessToken(p, "InBody", token)
      [] token.type \in {"Comment", "Doctype"} -> Panic(p)
      [] IsStartTagWithName(token, {"html"}) -> ProcessToken(p, "InBody", token)
      [] token.type = "Tag" /\ IsEndTagWithName(token, {"html"}) ->
            ProcessToken(p, "AfterAfterBody", token)
      [] token = EndOfFile -> StopParsing(p)
      [] OTHER -> Panic(p)

\* Parser::process_token
ProcessToken(p, insertion_mode, token) ==
    CASE insertion_mode = "Initial" -> ProcessInitial(p, token)
      [] insertion_mode = "BeforeHtml" -> ProcessBeforeHtml(p, token)
      [] insertion_mode = "BeforeHead" -> ProcessBeforeHead(p, token)
      [] insertion_mode = "InHead" -> ProcessInHead(p, token)
      [] insertion_mode = "AfterHead" -> ProcessAfterHead(p, token)
      [] insertion_mode = "InBody" -> ProcessInBody(p, token)
      [] insertion_mode = "Text" -> ProcessText(p, token)
      [] insertion_mode = "AfterBody" -> ProcessAfterBody(p, token)
      [] insertion_mode = "AfterAfterBody" -> ProcessAfterAfterBody(p, token)
      [] OTHER -> Panic(p)

\* Parser::dispatch
Dispatch(p, token) ==
    IF ~IsInForeignContent(p, token)
    THEN ProcessToken(p, p.insertion_mode, token)
    ELSE Panic(p)

\* ------------------------------------------------- adoption agency algorithm
\* The locals of run_adoption_agency_algorithm.
NoAdoption ==
    [outer_loop_counter |-> 0, formatting_element |-> NoneId, furthest_block |-> NoneId,
     common_ancestor |-> NoneId, bookmark |-> 0, node |-> NoneId, last_node |-> NoneId,
     node_above_node |-> NoneId, inner_loop_count |-> 0]

\* Results of a step: the parser, the locals, and where the algorithm goes on:
\* "inner" (an iteration of the inner loop), "outer" (of the outer loop), "return".
AdoptionResult(p, l, goto) == [p |-> p, l |-> l, goto |-> goto]

\* The outer loop's bound: `if outer_loop_counter >= 8 { return; }`
OuterLoopLimit == 8

\* An outer loop without `if outer_loop_counter >= 8 { return; }`.
AdoptionOuterIterationUnbounded(p, l, token) ==
    LET st == p.stack_of_open_elements
        afe == p.active_formatting_elements
        l1 == [l EXCEPT !.outer_loop_counter = @ + 1]
        formatting_element == LastElementWithTagNameBeforeMarker(p.arena, afe, token.tag_name)
        scope == HasElementInScope(p.arena, st,
                                   GetNode(p.arena, formatting_element).tag_name)
        p1 == IF formatting_element # CurrentNode(st)
              THEN Error(p, "Formatting element is not the current node")
              ELSE p
        furthest_block == TopmostSpecialNodeBelow(p.arena, st, formatting_element)
        found == {i \in 1..Len(st) : st[i] = formatting_element}
        above == (CHOOSE i \in found : \A j \in found : j <= i) - 1
    IN IF formatting_element = NoneId THEN AdoptionResult(Panic(p), l1, "return")
       ELSE IF ~StackContains(st, formatting_element)
       THEN AdoptionResult(
              [Error(p, "Formatting element not in the stack of open elements")
                 EXCEPT !.active_formatting_elements = AfeRemove(@, formatting_element)],
              l1, "return")
       ELSE IF scope.panic THEN AdoptionResult(Panic(p), l1, "return")
       ELSE IF ~scope.value
       THEN AdoptionResult(Error(p, "Formatting element is not in scope"), l1, "return")
       ELSE IF furthest_block = NoneId
       THEN AdoptionResult(
              [p1 EXCEPT !.stack_of_open_elements = SubSeq(st, 1, above),
                         !.active_formatting_elements = AfeRemove(@, formatting_element)],
              l1, "return")
       ELSE AdoptionResult(p1,
              [l1 EXCEPT !.formatting_element = formatting_element,
                         !.furthest_block = furthest_block,
                         !.common_ancestor = ElementImmediatelyAbove(st, formatting_element),
                         !.bookmark = AfeFirstIndexOf(afe, formatting_element),
                         !.node = furthest_block,
                         !.last_node = furthest_block,
                         !.node_above_node = ElementImmediatelyAbove(st, furthest_block),
                         !.inner_loop_count = 0],
              "inner")

\* From the head of the outer loop to the head of the inner loop.
AdoptionOuterIteration(p, l, token) ==
    LET st == p.stack_of_open_elements
        afe == p.active_formatting_elements
        l1 == [l EXCEPT !.outer_loop_counter = @ + 1]
        formatting_element == LastElementWithTagNameBeforeMarker(p.arena, afe, token.tag_name)
        scope == HasElementInScope(p.arena, st,
                                   GetNode(p.arena, formatting_element).tag_name)
        p1 == IF formatting_element # CurrentNode(st)
              THEN Error(p, "Formatting element is not the current node")
              ELSE p
        furthest_block == TopmostSpecialNodeBelow(p.arena, st, formatting_element)
        found == {i \in 1..Len(st) : st[i] = formatting_element}
        above == (CHOOSE i \in found : \A j \in found : j <= i) - 1
    IN IF l.outer_loop_counter >= OuterLoopLimit THEN AdoptionResult(p, l, "return")
       ELSE IF formatting_element = NoneId THEN AdoptionResult(Panic(p), l1, "return")
       ELSE IF ~StackContains(st, formatting_element)
       THEN AdoptionResult(
              [Error(p, "Formatting element not in the stack of open elements")
                 EXCEPT !.active_formatting_elements = AfeRemove(@, formatting_element)],
              l1, "return")
       ELSE IF scope.panic THEN AdoptionResult(Panic(p), l1, "return")
       ELSE IF ~scope.value
       THEN AdoptionResult(Error(p, "Formatting element is not in scope"), l1, "return")
       ELSE IF furthest_block = NoneId
       THEN AdoptionResult(
              [p1 EXCEPT !.stack_of_open_elements = SubSeq(st, 1, above),
                         !.active_formatting_elements = AfeRemove(@, formatting_element)],
              l1, "return")
       ELSE AdoptionResult(p1,
              [l1 EXCEPT !.formatting_element = formatting_element,
                         !.furthest_block = furthest_block,
                         !.common_ancestor = ElementImmediatelyAbove(st, formatting_element),
                         !.bookmark = AfeFirstIndexOf(afe, formatting_element),
                         !.node = furthest_block,
                         !.last_node = furthest_block,
                         !.node_above_node = ElementImmediatelyAbove(st, furthest_block),
                         !.inner_loop_count = 0],
              "inner")

\* Append each of children to new_element, in order.
RECURSIVE AppendAll(_, _, _)
AppendAll(r, children, new_element) ==
    IF r.panic \/ Len(children) = 0 THEN r
    ELSE AppendAll(ArenaAppend(r.arena, Head(children), new_element),
                   Tail(children), new_element)

\* The steps after the inner loop, to the end of the outer loop's body.
AdoptionAfterInnerLoop(p, l, token) ==
    LET location == AppropriatePlaceForInsertingNode(p, l.common_ancestor)
        p1 == IF l.common_ancestor = NoneId /\ StackIsEmpty(p.stack_of_open_elements)
              THEN Panic(p)
              ELSE WithArena(p, ArenaInsert(p.arena, l.last_node, location.parent,
                                            location.after_child))
        new_element == NextNodeId(p1.arena)
        p2 == CreateElementForToken(p1, token, l.furthest_block)
        p3 == WithArena(p2, AppendAll(ArenaOk(p2.arena),
                                      GetNode(p2.arena, l.furthest_block).children,
                                      new_element))
        p4 == WithArena(p3, ArenaAppend(p3.arena, new_element, l.furthest_block))
        afe == AfeRemove(p4.active_formatting_elements, l.formatting_element)
    IN IF p1.panic THEN AdoptionResult(p1, l, "return")
       ELSE IF p3.panic THEN AdoptionResult(p3, l, "return")
       ELSE IF p4.panic THEN AdoptionResult(p4, l, "return")
       ELSE IF l.bookmark > Len(afe) THEN AdoptionResult(Panic(p4), l, "return")
       ELSE AdoptionResult(
              [p4 EXCEPT !.active_formatting_elements = AfeInsert(afe, l.bookmark, new_element),
                         !.stack_of_open_elements =
                            StackInsertImmediatelyBelow(
                               StackRemoveElement(@, l.formatting_element),
                               new_element, l.furthest_block)],
              l, "outer")

\* One iteration of the inner loop; on its break, the rest of the outer loop's body.
AdoptionInnerIteration(p, l, token) ==
    LET l1 == [l EXCEPT !.inner_loop_count = @ + 1,
                        !.node = IF l.node_above_node # NoneId
                                 THEN l.node_above_node ELSE @]
        node == l1.node
        afe1 == IF l1.inner_loop_count > 3 /\ AfeContains(p.active_formatting_elements, node)
                THEN AfeRemove(p.active_formatting_elements, node)
                ELSE p.active_formatting_elements
        p1 == [p EXCEPT !.active_formatting_elements = afe1]
        new_element == NextNodeId(p.arena)
        p2 == CreateElementForToken(p1, token, l.common_ancestor)
        p3 == [p2 EXCEPT !.active_formatting_elements = AfeReplace(@, node, new_element),
                         !.stack_of_open_elements = StackReplace(@, node, new_element)]
        l2 == [l1 EXCEPT !.node = new_element,
                         !.bookmark = IF l.last_node = l.furthest_block
                                      THEN AfeFirstIndexOf(p3.active_formatting_elements,
                                                           new_element) + 1
                                      ELSE @,
                         !.last_node = new_element]
        p4 == WithArena(p3, ArenaAppend(p3.arena, l.last_node, new_element))
    IN IF node = l.formatting_element THEN AdoptionAfterInnerLoop(p, l1, token)
       ELSE IF ~AfeContains(afe1, node)
       THEN AdoptionResult(
              [p1 EXCEPT !.stack_of_open_elements = StackRemoveElement(@, node)],
              l1, "inner")
       ELSE IF l.common_ancestor = NoneId THEN AdoptionResult(Panic(p1), l1, "return")
       ELSE IF l.last_node = l.furthest_block
               /\ ~AfeContains(p3.active_formatting_elements, new_element)
       THEN AdoptionResult(Panic(p3), l1, "return")
       ELSE AdoptionResult(p4, l2, IF p4.panic THEN "return" ELSE "inner")

\* ------------------------------------------------------------ source strings
\* An input is a concatenation of at most MaxPieces of these fragments.
SourcePieces ==
    {"<html><head>", "<html><head><a>", "</head>", "<body>", "</body>",
     "</html>", "<a>", "</A>", "<p>", "<dialog>", "<dialog><div>", "<p><a>",
     "<div><div><div><div><div><div><div><div>",
     "<title>", "<style>", "<frameset>", "<!DOCTYPE html>",
     "<!-- c -->", "<A HREF=\"x\">", "x", " ", "&", "<", "</", "<!", "é", NUL}

\* The longest word next_few_input_characters_are is asked about ("DOCTYPE").
LookAhead == Len("DOCTYPE")

\* ------------------------------------------------------------------- state
VARIABLES
    html,                       \* the part of the source fixed so far
    closed,                     \* TRUE when html is the whole source
    pieces,                     \* number of fragments html is made of
    state, return_state, current_token, insertion_point, tokens,   \* Tokenizer
    arena,                      \* NodeArena.nodes
    insertion_mode, original_insertion_mode, should_reprocess_token, document,
    stack_of_open_elements, active_formatting_elements, head_element,
    should_stop_parsing, frameset_ok,                               \* Parser
    errors,                     \* the messages given to Parser::error, in order
    pc,                         \* where the run is: "parse" (head of the loop of
                                \* Parser::parse), "next" (in the loop of
                                \* Tokenizer::next), "token" (the loop's body),
                                \* "adoption_outer", "adoption_inner" (heads of the
                                \* adoption agency's loops), "done" (parse returned),
                                \* "panicked" (the run aborted)
    token,                      \* the token of the current iteration of parse
    adoption,                   \* locals of run_adoption_agency_algorithm
    dispatched,                 \* history: the calls of dispatch so far
    call,                       \* history: the last call made on the arena or the
                                \* stack alone, with its arguments and its result;
                                \* in a run of parse, the last reconsume_in_state
    first                       \* history: in a second parse of the same source,
                                \* the nodes of the arena of the first parse

source_vars == <<html, closed, pieces, first>>
tokenizer_vars == <<state, return_state, current_token, insertion_point, tokens>>
parser_vars ==
    <<arena, insertion_mode, original_insertion_mode, should_reprocess_token, document,
      stack_of_open_elements, active_formatting_elements, head_element,
      should_stop_parsing, frameset_ok, errors>>
vars == <<source_vars, tokenizer_vars, parser_vars, pc, token, adoption, dispatched, call>>

\* The tokenizer and the parser as the records the operators work on.
TheTokenizer ==
    [state |-> state, return_state |-> return_state, current_token |-> current_token,
     insertion_point |-> insertion_point, reconsumed_at |-> NoneId]

TheParser ==
    [arena |-> arena, insertion_mode |-> insertion_mode,
     original_insertion_mode |-> original_insertion_mode,
     should_reprocess_token |-> should_reprocess_token, document |-> document,
     stack_of_open_elements |-> stack_of_open_elements,
     active_formatting_elements |-> active_formatting_elements,
     head_element |-> head_element, should_stop_parsing |-> should_stop_parsing,
     frameset_ok |-> frameset_ok, errors |-> errors, tokenizer_state |-> state,
     panic |-> FALSE, run_adoption |-> FALSE]

SetTokenizer(t) ==
    /\ state' = t.state
    /\ return_state' = t.return_state
    /\ current_token' = t.current_token
    /\ insertion_point' = t.insertion_point

\* The parser's fields and the tokenizer state it may have switched.
SetParser(p) ==
    /\ arena' = p.arena
    /\ insertion_mode' = p.insertion_mode
    /\ original_insertion_mode' = p.original_insertion_mode
    /\ should_reprocess_token' = p.should_reprocess_token
    /\ document' = p.document
    /\ stack_of_open_elements' = p.stack_of_open_elements
    /\ active_formatting_elements' = p.active_formatting_elements
    /\ head_element' = p.head_element
    /\ should_stop_parsing' = p.should_stop_parsing
    /\ frameset_ok' = p.frameset_ok
    /\ errors' = p.errors
    /\ state' = p.tokenizer_state

\* No call made yet.
NoCall == [op |-> "none"]

\* No parse has returned yet.
NoTree == <<>>

\* Tokenizer::new and Parser::new on a fresh arena; nothing of the source fixed.
Init ==
    /\ html = "" /\ closed = FALSE /\ pieces = 0 /\ first = NoTree
    /\ state = NewTokenizer.state
    /\ return_state = NewTokenizer.return_state
    /\ current_token = NewTokenizer.current_token
    /\ insertion_point = NewTokenizer.insertion_point
    /\ tokens = <<>>
    /\ arena = CreateNode(NewArena, CreateDocument)
    /\ insertion_mode = "Initial"
    /\ original_insertion_mode = "Initial"
    /\ should_reprocess_token = FALSE
    /\ document = NextNodeId(NewArena)
    /\ stack_of_open_elements = NewStack
    /\ active_formatting_elements = NewActiveFormattingElements
    /\ head_element = NoneId
    /\ should_stop_parsing = FALSE
    /\ frameset_ok = TRUE
    /\ errors = <<>>
    /\ pc = "parse"
    /\ token = NoToken
    /\ adoption = NoAdoption
    /\ dispatched = <<>>
    /\ call = NoCall

\* The characters the next iteration of Tokenizer::next reads are fixed: the
\* character at the insertion point, or in MarkupDeclarationOpen as many
\* characters as decide both calls of next_few_input_characters_are.
SourceKnown ==
    \/ closed
    \/ state # "MarkupDeclarationOpen" /\ Len(html) > insertion_point
    \/ /\ state = "MarkupDeclarationOpen"
       /\ LET sl == ByteSlice(html, insertion_point)
          IN \/ ~sl.ok
             \/ Len(sl.rest) >= LookAhead
             \/ Len(sl.rest) >= Len("--") /\ ZipAll(sl.rest, "--", FALSE)
             \/ ~ZipAll(sl.rest, "--", FALSE) /\ ~ZipAll(sl.rest, "DOCTYPE", TRUE)

\* The source goes on with another fragment.
ChooseSource ==
    /\ pc = "next" /\ ~SourceKnown /\ pieces < MaxPieces
    /\ \E piece \in SourcePieces : html' = html \o piece
    /\ pieces' = pieces + 1
    /\ UNCHANGED <<closed, first, tokenizer_vars, parser_vars, pc, token, adoption, dispatched, call>>

\* The source ends here.
EndSource ==
    /\ pc = "next" /\ ~SourceKnown
    /\ closed' = TRUE
    /\ UNCHANGED <<html, pieces, first, tokenizer_vars, parser_vars, pc, token, adoption, dispatched, call>>

\* A head of the loop that calls next() whatever the reprocess flag says.
ParseLoopNextOnly ==
    /\ pc = "parse"
    /\ pc' = "next" /\ token' = NoToken
    /\ UNCHANGED <<source_vars, tokenizer_vars, parser_vars, adoption, dispatched, call>>

\* Parser::parse, the head of its loop: peek() when the token is reprocessed,
\* the call of next() otherwise.  peek() of an empty queue ends the loop.
ParseLoop ==
    /\ pc = "parse"
    /\ IF should_reprocess_token
       THEN IF Len(tokens) = 0
            THEN pc' = "done" /\ token' = NoToken
            ELSE pc' = "token" /\ token' = tokens[Len(tokens)]
       ELSE pc' = "next" /\ token' = NoToken
    /\ UNCHANGED <<source_vars, tokenizer_vars, parser_vars, adoption, dispatched, call>>

\* Tokenizer::next: one iteration of its loop and, when a token was emitted, its
\* push on tokens and the return of peek().  An iteration that reconsumes leaves
\* its record in call.
TokenizerNext ==
    /\ pc = "next" /\ SourceKnown
    /\ LET r == TokenizerIteration(TheTokenizer, html)
       IN /\ SetTokenizer(r.t)
          /\ IF r.panic
             THEN pc' = "panicked" /\ UNCHANGED <<tokens, token>>
             ELSE IF r.emitted # NoToken
             THEN /\ tokens' = Append(tokens, r.emitted)
                  /\ token' = r.emitted
                  /\ pc' = "token"
             ELSE UNCHANGED <<tokens, token, pc>>
          /\ call' = IF r.t.reconsumed_at # NoneId
                     THEN [op |-> "reconsume_in_state", before |-> r.t.reconsumed_at,
                           after |-> r.t.insertion_point, state |-> r.t.state]
                     ELSE call
    /\ UNCHANGED <<source_vars, parser_vars, adoption, dispatched>>

\* Parser::parse, `if self.should_stop_parsing { break; }` and the return.
ParseReturn ==
    /\ pc = "token" /\ should_stop_parsing
    /\ pc' = "done"
    /\ UNCHANGED <<source_vars, tokenizer_vars, parser_vars, token, adoption, dispatched, call>>

\* The parser after a call of dispatch, where the run goes on, and the call's
\* entry in the history: the token and the insertion mode it was made with,
\* whether the token came from peek(), the number of tokens emitted so far, the
\* value of should_stop_parsing at the call, and the insertion mode, the
\* reprocess flag it left, and the number of its calls of error().
Dispatched(p) ==
    /\ SetParser(p)
    /\ pc' = IF p.panic THEN "panicked"
             ELSE IF p.run_adoption THEN "adoption_outer"
             ELSE "parse"
    /\ dispatched' = Append(dispatched,
                            [token |-> token, insertion_mode |-> insertion_mode,
                             reprocess |-> should_reprocess_token,
                             emitted |-> Len(tokens),
                             stopped |-> should_stop_parsing,
                             selected |-> p.insertion_mode,
                             set_reprocess |-> p.should_reprocess_token,
                             reported |-> Len(p.errors) - Len(errors)])
    /\ UNCHANGED call

\* Parser::parse, the body of its loop: the flag is cleared and the token
\* dispatched.  An end tag of a formatting element goes on in the adoption
\* agency's loops.
ParseDispatch ==
    /\ pc = "token" /\ ~should_stop_parsing
    /\ Dispatched(Dispatch([TheParser EXCEPT !.should_reprocess_token = FALSE], token))
    /\ adoption' = NoAdoption
    /\ UNCHANGED <<source_vars, return_state, current_token, insertion_point, tokens, token>>

AdoptionStep(r) ==
    /\ SetParser(r.p)
    /\ adoption' = r.l
    /\ pc' = IF r.p.panic THEN "panicked"
             ELSE IF r.goto = "inner" THEN "adoption_inner"
             ELSE IF r.goto = "outer" THEN "adoption_outer"
             ELSE "parse"
    /\ UNCHANGED <<source_vars, return_state, current_token, insertion_point, tokens,
                   token, dispatched, call>>

\* run_adoption_agency_algorithm: an iteration of the outer loop up to the inner loop.
AdoptionOuter ==
    /\ pc = "adoption_outer"
    /\ AdoptionStep(AdoptionOuterIteration(TheParser, adoption, token))

\* run_adoption_agency_algorithm: an iteration of the inner loop.
AdoptionInner ==
    /\ pc = "adoption_inner"
    /\ adoption.inner_loop_count < MaxInner
    /\ AdoptionStep(AdoptionInnerIteration(TheParser, adoption, token))

Next ==
    \/ ChooseSource
    \/ EndSource
    \/ ParseLoop
    \/ TokenizerNext
    \/ ParseReturn
    \/ ParseDispatch
    \/ AdoptionOuter
    \/ AdoptionInner

Spec == Init /\ [][Next]_vars

\* The run is one thread: a step that can be taken is taken.
FairSpec == Spec /\ WF_vars(Next)

\* --------------------------------------------------- the same source again
\* The sources parsed a second time are those of at most MaxPiecesAgain fragments.
MaxPiecesAgain == 2

\* A second parse that goes on in the arena of the first.
ParseAgainSameArena ==
    /\ pc = "done" /\ first = NoTree /\ pieces <= MaxPiecesAgain
    /\ first' = arena
    /\ SetTokenizer(NewTokenizer)
    /\ tokens' = <<>>
    /\ SetParser([TheParser EXCEPT
                    !.arena = CreateNode(arena, CreateDocument),
                    !.insertion_mode = "Initial",
                    !.original_insertion_mode = "Initial",
                    !.should_reprocess_token = FALSE,
                    !.document = NextNodeId(arena),
                    !.stack_of_open_elements = NewStack,
                    !.active_formatting_elements = NewActiveFormattingElements,
                    !.head_element = NoneId,
                    !.should_stop_parsing = FALSE,
                    !.frameset_ok = TRUE,
                    !.errors = <<>>,
                    !.tokenizer_state = NewTokenizer.state])
    /\ pc' = "parse" /\ token' = NoToken /\ adoption' = NoAdoption
    /\ dispatched' = <<>> /\ call' = NoCall
    /\ UNCHANGED <<html, closed, pieces>>

\* After parse returned: Tokenizer::new and Parser::new on the same source and
\* a fresh arena, the nodes of the first arena kept for comparison.
ParseAgain ==
    /\ pc = "done" /\ first = NoTree /\ pieces <= MaxPiecesAgain
    /\ first' = arena
    /\ SetTokenizer(NewTokenizer)
    /\ tokens' = <<>>
    /\ SetParser([TheParser EXCEPT
                    !.arena = CreateNode(NewArena, CreateDocument),
                    !.insertion_mode = "Initial",
                    !.original_insertion_mode = "Initial",
                    !.should_reprocess_token = FALSE,
                    !.document = NextNodeId(NewArena),
                    !.stack_of_open_elements = NewStack,
                    !.active_formatting_elements = NewActiveFormattingElements,
                    !.head_element = NoneId,
                    !.should_stop_parsing = FALSE,
                    !.frameset_ok = TRUE,
                    !.errors = <<>>,
                    !.tokenizer_state = NewTokenizer.state])
    /\ pc' = "parse" /\ token' = NoToken /\ adoption' = NoAdoption
    /\ dispatched' = <<>> /\ call' = NoCall
    /\ UNCHANGED <<html, closed, pieces>>

TwiceNext == Next \/ ParseAgain

TwiceSpec == Init /\ [][TwiceNext]_vars

\* ---------------------------------------------------------- the arena alone
\* Calls of the arena's public functions on an arena of its own, no parser
\* involved: at most MaxNodes nodes, at most MaxChildren entries of child lists.
MaxNodes == 3
MaxChildren == 3

\* The variables no call on the arena or the stack alone touches.
alone_vars ==
    <<source_vars, tokenizer_vars, insertion_mode, original_insertion_mode,
      should_reprocess_token, document, active_formatting_elements, head_element,
      should_stop_parsing, frameset_ok, errors, token, adoption, dispatched>>

\* No tokenizer and no parser at work.
NoRun ==
    /\ html = "" /\ closed = TRUE /\ pieces = 0 /\ first = NoTree
    /\ state = NewTokenizer.state
    /\ return_state = NewTokenizer.return_state
    /\ current_token = NewTokenizer.current_token
    /\ insertion_point = NewTokenizer.insertion_point
    /\ tokens = <<>>
    /\ insertion_mode = "Initial"
    /\ original_insertion_mode = "Initial"
    /\ should_reprocess_token = FALSE
    /\ document = NoneId
    /\ active_formatting_elements = NewActiveFormattingElements
    /\ head_element = NoneId
    /\ should_stop_parsing = FALSE
    /\ frameset_ok = TRUE
    /\ errors = <<>>
    /\ token = NoToken
    /\ adoption = NoAdoption
    /\ dispatched = <<>>

\* NodeArena::new
ArenaInit ==
    /\ NoRun
    /\ arena = NewArena
    /\ stack_of_open_elements = NewStack
    /\ pc = "arena"
    /\ call = NoCall

\* Number of entries of all child lists.
RECURSIVE ChildCount(_)
ChildCount(a) == IF Len(a) = 0 THEN 0 ELSE Len(Head(a).children) + ChildCount(Tail(a))

\* The nodes the constructors of Node make for the Document nodes of the arena.
NewNodes(a) ==
    LET documents == {d \in NodeIds(a) : IsDocument(GetNode(a, d))}
    IN {CreateDocument}
           \cup {CreateElement(d, "div") : d \in documents}
           \cup {CreateText(d, "x") : d \in documents}

\* NodeArena::create_node
ArenaCallCreateNode ==
    /\ pc = "arena" /\ Len(arena) < MaxNodes
    /\ \E node \in NewNodes(arena) :
          /\ arena' = CreateNode(arena, node)
          /\ call' = [op |-> "create_node", node |-> NextNodeId(arena)]
    /\ UNCHANGED <<alone_vars, stack_of_open_elements, pc>>

\* A mutation of the arena was called: its result and its record.
ArenaCalled(op, r, node, into_parent, before_child) ==
    /\ arena' = r.arena
    /\ pc' = IF r.panic THEN "panicked" ELSE "arena"
    /\ call' = [op |-> op, node |-> node, into_parent |-> into_parent,
                before_child |-> before_child, before |-> arena, panic |-> r.panic]
    /\ UNCHANGED <<alone_vars, stack_of_open_elements>>

\* NodeArena::insert and NodeArena::pre_insert
ArenaCallInsert ==
    /\ pc = "arena" /\ ChildCount(arena) < MaxChildren
    /\ \E node \in NodeIds(arena), into_parent \in NodeIds(arena),
          before_child \in NodeIds(arena) \cup {NoneId} :
          \/ ArenaCalled("insert", ArenaInsert(arena, node, into_parent, before_child),
                         node, into_parent, before_child)
          \/ ArenaCalled("pre_insert", PreInsert(arena, node, into_parent, before_child),
                         node, into_parent, before_child)

\* NodeArena::append
ArenaCallAppend ==
    /\ pc = "arena" /\ ChildCount(arena) < MaxChildren
    /\ \E node \in NodeIds(arena), into_parent \in NodeIds(arena) :
          ArenaCalled("append", ArenaAppend(arena, node, into_parent),
                      node, into_parent, NoneId)

\* NodeArena::previous_sibling and NodeArena::next_sibling
ArenaCallSiblings ==
    /\ pc = "arena"
    /\ \E node \in NodeIds(arena) :
          call' = [op |-> "siblings", node |-> node,
                   previous_sibling |-> PreviousSibling(arena, node),
                   next_sibling |-> NextSibling(arena, node)]
    /\ UNCHANGED <<alone_vars, arena, stack_of_open_elements, pc>>

ArenaNext ==
    \/ ArenaCallCreateNode
    \/ ArenaCallInsert
    \/ ArenaCallAppend
    \/ ArenaCallSiblings

ArenaSpec == ArenaInit /\ [][ArenaNext]_vars

\* ---------------------------------------------------------- the stack alone
\* Calls of StackOfOpenElements on a stack of its own: at most MaxStack elements
\* are created, each pushed when it is created.
MaxStack == 3

\* The tag names of the elements pushed and of the targets asked for.
ScopeTags == {"html", "table", "td", "p"}

\* The lists of tag names has_element_in_specific_scope is called with.
ScopeLists == {{}, {"p"}, {"td"}, {"html", "table", "template"}, BASE_SCOPE_TAGS}

\* StackOfOpenElements::new, and an arena that holds a Document.
StackInit ==
    /\ NoRun
    /\ arena = CreateNode(NewArena, CreateDocument)
    /\ stack_of_open_elements = NewStack
    /\ pc = "stack"
    /\ call = NoCall

\* StackOfOpenElements::push, of an element just created.
StackCallPush ==
    /\ pc = "stack" /\ Len(arena) <= MaxStack
    /\ \E tag_name \in ScopeTags :
          arena' = CreateNode(arena, CreateElement(0, tag_name))
    /\ stack_of_open_elements' = StackPush(stack_of_open_elements, NextNodeId(arena))
    /\ call' = [op |-> "push", element |-> NextNodeId(arena)]
    /\ UNCHANGED <<alone_vars, pc>>

\* StackOfOpenElements::pop
StackCallPop ==
    /\ pc = "stack"
    /\ stack_of_open_elements' = StackPop(stack_of_open_elements)
    /\ call' = [op |-> "pop"]
    /\ UNCHANGED <<alone_vars, arena, pc>>

\* A question about the scope was asked: its answer and its record.
ScopeCalled(op, result, target_node, tag_names) ==
    /\ call' = [op |-> op, target_node |-> target_node, tag_names |-> tag_names,
                result |-> result]
    /\ pc' = IF result.panic THEN "panicked" ELSE "stack"
    /\ UNCHANGED <<alone_vars, arena, stack_of_open_elements>>

\* StackOfOpenElements::has_element_in_specific_scope
StackCallSpecificScope ==
    /\ pc = "stack"
    /\ \E target_node \in ScopeTags, tag_names \in ScopeLists :
          ScopeCalled("has_element_in_specific_scope",
                      HasElementInSpecificScope(arena, stack_of_open_elements,
                                                target_node, tag_names),
                      target_node, tag_names)

\* StackOfOpenElements::has_element_in_scope, _in_list_scope, _in_button_scope
\* and _in_table_scope
StackCallScope ==
    /\ pc = "stack"
    /\ \E element \in ScopeTags :
          \/ ScopeCalled("has_element_in_scope",
                         HasElementInScope(arena, stack_of_open_elements, element),
                         element, {})
          \/ ScopeCalled("has_element_in_list_scope",
                         HasElementInListScope(arena, stack_of_open_elements, element),
                         element, {})
          \/ ScopeCalled("has_element_in_button_scope",
                         HasElementInButtonScope(arena, stack_of_open_elements, element),
                         element, {})
          \/ ScopeCalled("has_element_in_table_scope",
                         HasElementInTableScope(arena, stack_of_open_elements, element),
                         element, {})

\* The lists of active formatting elements reconstruct is called on: at most
\* MaxEntries entries, each a marker or an element of the arena.
MaxEntries == 1

FormattingLists ==
    LET entries == {Marker} \cup {Element(id) : id \in NodeIds(arena) \ {0}}
    IN UNION {[1..n -> entries] : n \in 0..MaxEntries}

\* ActiveFormattingElements::reconstruct, on a list of its own.
StackCallReconstruct ==
    /\ pc = "stack"
    /\ \E elements \in FormattingLists :
          LET r == Reconstruct(elements, stack_of_open_elements)
          IN /\ call' = [op |-> "reconstruct", elements |-> elements, result |-> r]
             /\ pc' = IF r.panic THEN "panicked" ELSE "stack"
    /\ UNCHANGED <<alone_vars, arena, stack_of_open_elements>>

StackNext ==
    \/ StackCallPush
    \/ StackCallPop
    \/ StackCallSpecificScope
    \/ StackCallScope
    \/ StackCallReconstruct

StackSpec == StackInit /\ [][StackNext]_vars

\* ------------------------------------------- parser operations on their own
\* close_p_element and insert_html_element called in InBody on a stack of
\* html, body and at most MaxOpen more elements.
MaxOpen == 3

\* The tag names of the elements above body.
OpenTags == {"p", "li", "div", "a"}

\* The tag names of the start tags given to insert_html_element.
InsertedTags == {"div", "p"}

\* A parser in InBody whose stack holds html, body and the elements of a list
\* of tag names, each the child of the one before it.
OpsInit ==
    /\ html = "" /\ closed = TRUE /\ pieces = 0 /\ first = NoTree
    /\ state = NewTokenizer.state
    /\ return_state = NewTokenizer.return_state
    /\ current_token = NewTokenizer.current_token
    /\ insertion_point = NewTokenizer.insertion_point
    /\ tokens = <<>>
    /\ \E n \in 0..MaxOpen : \E tag_names \in [1..n -> OpenTags] :
          LET names == <<"html", "body">> \o tag_names
          IN /\ arena = <<[CreateDocument EXCEPT !.children = <<1>>]>> \o
                        [i \in 1..Len(names) |->
                           [CreateElement(0, names[i]) EXCEPT
                              !.children = IF i < Len(names) THEN <<i + 1>> ELSE <<>>]]
             /\ stack_of_open_elements = [i \in 1..Len(names) |-> i]
    /\ insertion_mode = "InBody"
    /\ original_insertion_mode = "Initial"
    /\ should_reprocess_token = FALSE
    /\ document = 0
    /\ active_formatting_elements = NewActiveFormattingElements
    /\ head_element = NoneId
    /\ should_stop_parsing = FALSE
    /\ frameset_ok = FALSE
    /\ errors = <<>>
    /\ pc = "call"
    /\ token = NoToken
    /\ adoption = NoAdoption
    /\ dispatched = <<>>
    /\ call = NoCall

\* Parser::close_p_element, called as its callers do when the stack has a p
\* element in button scope.
OpsCallClosePElement ==
    /\ pc = "call"
    /\ HasElementInButtonScope(arena, stack_of_open_elements, "p")
          = [panic |-> FALSE, value |-> TRUE]
    /\ LET p == ClosePElement(TheParser)
       IN /\ SetParser(p)
          /\ pc' = IF p.panic THEN "panicked" ELSE "returned"
    /\ call' = [op |-> "close_p_element", stack |-> stack_of_open_elements]
    /\ UNCHANGED <<source_vars, return_state, current_token, insertion_point, tokens,
                   token, adoption, dispatched>>

\* Parser::insert_html_element with a start tag token.
OpsCallInsertHtmlElement ==
    /\ pc = "call"
    /\ \E tag_name \in InsertedTags :
          LET p == InsertHtmlElement(TheParser, Tag(TRUE, tag_name))
          IN /\ SetParser(p)
             /\ pc' = IF p.panic THEN "panicked" ELSE "returned"
             /\ call' = [op |-> "insert_html_element", tag_name |-> tag_name,
                         stack |-> stack_of_open_elements, arena |-> arena]
    /\ UNCHANGED <<source_vars, return_state, current_token, insertion_point, tokens,
                   token, adoption, dispatched>>

OpsNext == OpsCallClosePElement \/ OpsCallInsertHtmlElement

OpsSpec == OpsInit /\ [][OpsNext]_vars

\* ------------------------------------------------- the tokenizer on a DOCTYPE
\* Tokenizer::next on the sources `<!DOCTYPE`, whitespace, a name of at most
\* MaxName characters, `>`.
MaxName == 3

\* The characters of the names.
DoctypeNameChars == {"h", "H", "m"}

\* The whitespace between `<!DOCTYPE` and the name.
DoctypeSpaces == {" ", "\n"}

RECURSIVE Concat(_)
Concat(characters) ==
    IF characters = <<>> THEN "" ELSE Head(characters) \o Concat(Tail(characters))

\* Tokenizer::new on such a source; call keeps the name the source was made of.
DoctypeInit ==
    /\ \E space \in DoctypeSpaces : \E n \in 1..MaxName :
          \E characters \in [1..n -> DoctypeNameChars] :
             /\ html = "<!DOCTYPE" \o space \o Concat(characters) \o ">"
             /\ call = [op |-> "new", name |-> Concat(characters)]
    /\ closed = TRUE /\ pieces = 0 /\ first = NoTree
    /\ state = NewTokenizer.state
    /\ return_state = NewTokenizer.return_state
    /\ current_token = NewTokenizer.current_token
    /\ insertion_point = NewTokenizer.insertion_point
    /\ tokens = <<>>
    /\ arena = CreateNode(NewArena, CreateDocument)
    /\ insertion_mode = "Initial"
    /\ original_insertion_mode = "Initial"
    /\ should_reprocess_token = FALSE
    /\ document = NextNodeId(NewArena)
    /\ stack_of_open_elements = NewStack
    /\ active_formatting_elements = NewActiveFormattingElements
    /\ head_element = NoneId
    /\ should_stop_parsing = FALSE
    /\ frameset_ok = TRUE
    /\ errors = <<>>
    /\ pc = "next"
    /\ token = NoToken
    /\ adoption = NoAdoption
    /\ dispatched = <<>>

\* The first call of next() alone.
DoctypeNext == TokenizerNext

DoctypeSpec == DoctypeInit /\ [][DoctypeNext]_vars

\* ------------------------------------------------------------------ claims
\* The insertion modes whose arm of process_token is a bare todo!().
StubbedModes ==
    {"InHeadNoScript", "InTable", "InTableText", "InCaption", "InColumnGroup",
     "InTableBody", "InRow", "InCell", "InSelect", "InSelectInTable", "InTemplate",
     "InFrameset", "AfterFrameset", "AfterAfterFrameset"}

\* The places <<parent, index>> where id stands in a child list.
ChildSlots(a, id) ==
    UNION {{<<n, i>> : i \in {j \in 1..Len(GetNode(a, n).children) :
                                  GetNode(a, n).children[j] = id}} : n \in NodeIds(a)}

\* The nodes reached from the nodes of frontier through child lists, seen included.
RECURSIVE Descendants(_, _, _)
Descendants(a, frontier, seen) ==
    IF frontier = {} THEN seen
    ELSE LET children == UNION {{GetNode(a, n).children[i] :
                                    i \in 1..Len(GetNode(a, n).children)} : n \in frontier}
         IN Descendants(a, children \ seen, seen \cup children)

ReachableFromDocument(a, doc) == Descendants(a, {doc}, {doc})

\* C1: every run of Parser::parse eventually returns (the token loop exits);
\* no run aborts or loops forever.
C1_ParseEventuallyReturns == <>(pc = "done")

\* C2: every node id occurs in the child list of at most one node, and at most
\* once in that list, also after the adoption agency algorithm has run with a
\* furthest block.
C2_AtMostOneChildSlot ==
    \A id \in NodeIds(arena) : Cardinality(ChildSlots(arena, id)) <= 1

\* C3: every node listed in the children of a node p has parent p, and every
\* node whose parent is p is listed in p's children.
C3_ParentAgreesWithChildren ==
    \A n \in NodeIds(arena) :
        /\ \A i \in 1..Len(GetNode(arena, n).children) :
              GetNode(arena, GetNode(arena, n).children[i]).parent = n
        /\ GetNode(arena, n).parent # NoneId =>
              \E slot \in ChildSlots(arena, n) : slot[1] = GetNode(arena, n).parent

\* C4: should_stop_parsing is set only by the dispatch of an EndOfFile token, made
\* in InBody, AfterBody or AfterAfterBody, which is then the last dispatch: no
\* token was dispatched with the flag set.
C4_StopOnlyAtEndOfFile ==
    /\ should_stop_parsing =>
          /\ Len(dispatched) > 0
          /\ dispatched[Len(dispatched)].token = EndOfFile
          /\ dispatched[Len(dispatched)].insertion_mode \in
                {"InBody", "AfterBody", "AfterAfterBody"}
    /\ \A i \in 1..Len(dispatched) : ~dispatched[i].stopped

\* C4's case: the parse has returned after an EndOfFile token that was
\* reprocessed set should_stop_parsing.
C4_StoppedAfterReprocessedEndOfFile ==
    /\ pc = "done" /\ should_stop_parsing
    /\ dispatched[Len(dispatched)].reprocess
    /\ dispatched[Len(dispatched)].token = EndOfFile

\* C5: a dispatch is made with the reprocess flag set exactly when the dispatch
\* before it set the flag; it then receives the same token, the tokenizer's most
\* recently emitted one, with no token emitted in between, under the insertion
\* mode the dispatch before selected, which is another than its own.  Every other dispatch receives the one
\* token emitted since, and Tokenizer::next runs only with the flag clear.
C5_ReprocessGetsSameToken ==
    /\ pc = "next" => ~should_reprocess_token
    /\ \A i \in 1..Len(dispatched) :
          /\ dispatched[i].emitted \in 1..Len(tokens)
          /\ dispatched[i].token = tokens[dispatched[i].emitted]
          /\ i = 1 => ~dispatched[i].reprocess /\ dispatched[i].emitted = 1
          /\ i > 1 =>
                /\ dispatched[i].reprocess = dispatched[i - 1].set_reprocess
                /\ dispatched[i].insertion_mode = dispatched[i - 1].selected
                /\ IF dispatched[i].reprocess
                   THEN /\ dispatched[i].insertion_mode # dispatched[i - 1].insertion_mode
                        /\ dispatched[i].token = dispatched[i - 1].token
                        /\ dispatched[i].emitted = dispatched[i - 1].emitted
                   ELSE dispatched[i].emitted = dispatched[i - 1].emitted + 1

\* C5's case: a token was dispatched a second time, under another insertion mode.
C5_TokenReprocessed ==
    /\ Len(dispatched) > 1
    /\ dispatched[Len(dispatched)].reprocess
    /\ dispatched[Len(dispatched)].insertion_mode #
          dispatched[Len(dispatched) - 1].insertion_mode

\* C6: when the tokenizer is at the end of the input, in whatever state, the
\* call of Tokenizer::next goes on to return an EndOfFile token.
C6_EndOfInputEmitsEndOfFile ==
    (pc = "next" /\ closed /\ CurrentInputCharacter(html, insertion_point) = None)
        ~> (pc = "token" /\ token = EndOfFile)

\* C7: an iteration of the tokenizer's loop either advances the insertion point
\* or is a reconsume, which switches the state: no state is entered again at
\* the same input position.
C7_TokenizerStepAdvances ==
    (pc = "next" /\ SourceKnown) =>
        \/ TokenizerIteration(TheTokenizer, html).panic
        \/ TokenizerIteration(TheTokenizer, html).t.insertion_point > insertion_point
        \/ TokenizerIteration(TheTokenizer, html).t.state # state

\* C8: a token dispatched in a stubbed insertion mode is reported through
\* error() and the run is not aborted.
C8_StubbedModeReportsAndGoesOn ==
    \A i \in 1..Len(dispatched) :
        dispatched[i].insertion_mode \in StubbedModes =>
            /\ dispatched[i].reported > 0
            /\ i = Len(dispatched) => pc # "panicked"

\* C9: every id on the stack of open elements is the index of an arena node
\* whose kind is Element.
C9_StackHoldsElements ==
    \A i \in 1..Len(stack_of_open_elements) :
        /\ stack_of_open_elements[i] \in NodeIds(arena)
        /\ IsElement(GetNode(arena, stack_of_open_elements[i]))

\* C9's case: the adoption agency algorithm has replaced the formatting element
\* on the stack by a new element below the furthest block.
C9_StackAfterAdoption ==
    /\ pc = "adoption_outer" /\ adoption.outer_loop_counter > 0
    /\ adoption.furthest_block # NoneId
    /\ ~StackContains(stack_of_open_elements, adoption.formatting_element)
    /\ Len(stack_of_open_elements) > 3

\* C10: every Element(id) entry of the list of active formatting elements is on
\* the stack of open elements or is an arena node reachable from the Document
\* through child lists.
C10_FormattingElementsAttached ==
    \A i \in 1..Len(active_formatting_elements) :
        active_formatting_elements[i] # Marker =>
            \/ StackContains(stack_of_open_elements, active_formatting_elements[i].id)
            \/ active_formatting_elements[i].id \in ReachableFromDocument(arena, document)

\* C10's case: a formatting element was popped off the stack of open elements
\* and is still in the list.
C10_FormattingElementOffStack ==
    \E i \in 1..Len(active_formatting_elements) :
        /\ active_formatting_elements[i] # Marker
        /\ ~StackContains(stack_of_open_elements, active_formatting_elements[i].id)
        /\ active_formatting_elements[i].id \in ReachableFromDocument(arena, document)

\* C11: a call insert(child, parent, Some(ref)) whose ref is not among parent's
\* children does not fail and leaves the arena as insert(child, parent, None)
\* would: child is appended as parent's last child.
C11_InsertWithAbsentReferenceAppends ==
    (/\ call.op = "insert"
     /\ call.node # call.into_parent
     /\ call.before_child # NoneId
     /\ Position(GetNode(call.before, call.into_parent).children, call.before_child) = 0)
        => /\ ~call.panic
           /\ arena = ArenaInsert(call.before, call.node, call.into_parent, NoneId).arena

\* C12: after a call of insert, pre_insert or append that returned, the node
\* document of the inserted node (an Element or a Text) is the node document of
\* the parent it was inserted into.
C12_InsertAdoptsIntoParentDocument ==
    (/\ call.op \in {"insert", "pre_insert", "append"}
     /\ ~call.panic
     /\ ~IsDocument(GetNode(arena, call.node)))
        => NodeDocument(arena, call.node) = NodeDocument(arena, call.into_parent)

\* C13: for an Element or a Text that stands in exactly one place of the child
\* lists, at index i of its parent's list, previous_sibling returns the child at
\* index i - 1 (None for the first child) and next_sibling the child at index
\* i + 1 (None for the last child).
C13_SiblingsFollowChildList ==
    (/\ call.op = "siblings"
     /\ ~IsDocument(GetNode(arena, call.node))
     /\ Cardinality(ChildSlots(arena, call.node)) = 1)
        => \A slot \in ChildSlots(arena, call.node) :
              LET children == GetNode(arena, slot[1]).children
                  i == slot[2]
              IN /\ call.previous_sibling =
                        (IF i = 1 THEN NoneId ELSE children[i - 1])
                 /\ call.next_sibling =
                        (IF i = Len(children) THEN NoneId ELSE children[i + 1])

\* C14: the graph of the child lists has no cycle: no node is reached from
\* itself through one or more child lists, whatever calls of insert, pre_insert
\* and append were made.
C14_ChildGraphAcyclic ==
    \A n \in NodeIds(arena) : n \notin Descendants(arena, {n}, {})

\* The index in the stack of the element nearest to the current node whose tag
\* name is one of tag_names, 0 when there is none.
NearestWithTagName(a, st, tag_names) ==
    LET met == {i \in 1..Len(st) : IsElementWithOneOfTagNames(GetNode(a, st[i]), tag_names)}
    IN IF met = {} THEN 0 ELSE CHOOSE i \in met : \A j \in met : j <= i

\* C15: has_element_in_specific_scope(target, stoppers) returns true when, from
\* the current node towards the bottom of the stack, an element named target is
\* met before any element named in stoppers or is that element itself, returns
\* false when an element named in stoppers is met first, and returns true in no
\* other case.
C15_SpecificScopeWalksTheStack ==
    call.op = "has_element_in_specific_scope" =>
        LET target == NearestWithTagName(arena, stack_of_open_elements, {call.target_node})
            stopper == NearestWithTagName(arena, stack_of_open_elements, call.tag_names)
        IN /\ (target > 0 /\ target >= stopper) =>
                  (~call.result.panic /\ call.result.value)
           /\ stopper > target => (~call.result.panic /\ ~call.result.value)
           /\ call.result.value => (target > 0 /\ target >= stopper)

\* The target asked for is in the list too, it is met below another element, and
\* the call answered true.
C15_TargetThatIsAStopperMatched ==
    /\ call.op = "has_element_in_specific_scope"
    /\ call.target_node \in call.tag_names
    /\ NearestWithTagName(arena, stack_of_open_elements, {call.target_node}) \in
           1..(Len(stack_of_open_elements) - 1)
    /\ call.result.value

\* C16: has_element_in_table_scope(target) answers as
\* has_element_in_specific_scope(target, {html, table, template}) does, on every
\* stack on which that call returns.
C16_TableScopeStopsAtHtmlTableTemplate ==
    LET specific == HasElementInSpecificScope(arena, stack_of_open_elements,
                                              call.target_node,
                                              {"html", "table", "template"})
    IN (call.op = "has_element_in_table_scope" /\ ~specific.panic)
           => call.result = specific

\* C17: in the state MarkupDeclarationOpen, with the whole source known, each of
\* the two calls next_few_input_characters_are("--", false) and
\* next_few_input_characters_are("DOCTYPE", true) returns, and returns true
\* exactly when at least len(word) characters remain at the insertion point and
\* the next len(word) of them are the word (for "--" compared without regard to
\* ASCII case).
C17_NextFewInputCharactersAreTheWord ==
    (pc = "next" /\ state = "MarkupDeclarationOpen" /\ closed) =>
        \A q \in {<<"--", FALSE>>, <<"DOCTYPE", TRUE>>} :
            LET word == q[1]
                r == NextFewInputCharactersAre(html, insertion_point, word, q[2])
            IN /\ ~r.panic
               /\ r.value =
                     (/\ Len(html) - insertion_point >= Len(word)
                      /\ \A i \in 1..Len(word) :
                            IF q[2]
                            THEN CharAt(html, insertion_point + i) = CharAt(word, i)
                            ELSE EqIgnoreAsciiCase(CharAt(html, insertion_point + i),
                                                   CharAt(word, i)))

C19_QueueHoldsAtMostOneToken == Len(tokens) <= 1

\* C20: every call of reconsume_in_state finds the insertion point at 1 or more
\* and leaves it one less.
C20_ReconsumeStepsBackOne ==
    call.op = "reconsume_in_state" =>
        (call.before >= 1 /\ call.after = call.before - 1)

\* A reconsume at the first character of an attribute name, the tag name and a
\* space consumed before it.
C20_ReconsumedInAttributeName ==
    /\ call.op = "reconsume_in_state"
    /\ call.state = "AttributeName"
    /\ call.before > 3
    /\ state = "AttributeName" /\ insertion_point = call.after

\* C21: a call of reconstruct on a list that is empty, or whose last entry is a
\* marker, or whose last entry is an element on the stack of open elements,
\* returns and leaves the list as it was (the stack is passed by shared
\* reference and the arena not at all: StackCallReconstruct leaves both).
C21_ReconstructReturnsEarly ==
    (/\ call.op = "reconstruct"
     /\ \/ Len(call.elements) = 0
        \/ call.elements[Len(call.elements)] = Marker
        \/ StackContains(stack_of_open_elements,
                         call.elements[Len(call.elements)].id))
    => (~call.result.panic /\ call.result.elements = call.elements)

\* reconstruct was called on a list whose last entry is an element on the
\* stack, while another element of the arena has been popped off it.
C21_LastEntryOnStack ==
    /\ call.op = "reconstruct"
    /\ Len(call.elements) > 0
    /\ call.elements[Len(call.elements)].kind = "Element"
    /\ StackContains(stack_of_open_elements, call.elements[Len(call.elements)].id)
    /\ \E id \in NodeIds(arena) \ {0} : ~StackContains(stack_of_open_elements, id)
    /\ pc = "stack"

\* The entries of the list of active formatting elements after its last marker.
AfterLastMarker(afe) ==
    {i \in 1..Len(afe) : \A j \in i..Len(afe) : afe[j] # Marker}

\* C22: after the InBody rules for a character or a start tag a, which begin
\* with reconstruct, the run has not aborted in reconstruct and every entry of
\* the list after its last marker is an element on the stack of open elements.
C22_ReconstructReopensElements ==
    (/\ pc \in {"parse", "panicked"}
     /\ Len(dispatched) > 0
     /\ LET d == dispatched[Len(dispatched)]
        IN /\ d.insertion_mode = "InBody"
           /\ \/ d.token.type = "Character" /\ d.token # Character(NUL)
              \/ IsStartTagWithName(d.token, {"a"}))
    => /\ ~(pc = "panicked" /\ ReconstructPanics(active_formatting_elements,
                                                 stack_of_open_elements))
       /\ pc = "parse" =>
             \A i \in AfterLastMarker(active_formatting_elements) :
                 StackContains(stack_of_open_elements,
                               active_formatting_elements[i].id)

\* C23: after a start tag that has attributes was dispatched and left an element
\* of its tag name as the current node, that element carries the token's
\* attributes, in the token's order.
C23_ElementCarriesTokenAttributes ==
    (/\ pc = "parse"
     /\ Len(dispatched) > 0
     /\ ~StackIsEmpty(stack_of_open_elements)
     /\ LET d == dispatched[Len(dispatched)]
        IN /\ d.token.type = "Tag" /\ d.token.start
           /\ Len(d.token.attributes) > 0
           /\ IsElementWithTagName(GetNode(arena, CurrentNode(stack_of_open_elements)),
                                   d.token.tag_name))
    => LET element == GetNode(arena, CurrentNode(stack_of_open_elements))
       IN /\ "attributes" \in DOMAIN element
          /\ element.attributes = dispatched[Len(dispatched)].token.attributes

\* The number of times the character c stands in the data of the Text nodes
\* among the first n nodes of the arena that are in the tree of doc.
RECURSIVE CharactersInText(_, _, _, _)
CharactersInText(a, doc, c, n) ==
    IF n = 0 THEN 0
    ELSE CharactersInText(a, doc, c, n - 1)
         + (IF a[n].kind = "Text" /\ (n - 1) \in ReachableFromDocument(a, doc)
            THEN Cardinality({i \in 1..Len(a[n].data) : CharAt(a[n].data, i) = c})
            ELSE 0)

\* The number of Character tokens for c emitted so far.
CharactersEmitted(c) ==
    Cardinality({i \in 1..Len(tokens) : tokens[i] = Character(c)})

\* The source has no character reference (no script or style element is among
\* the fragments).
PlainSource == \A i \in 1..Len(html) : CharAt(html, i) # "&"

C26_InnerLoopMovesNode ==
    [][(pc = "adoption_inner" /\ pc' = "adoption_inner")
          => adoption'.node # adoption.node]_vars

\* C27: the adoption agency's outer loop counter, which counts the executions
\* of the loop's body in one invocation, never exceeds 8.
C27_OuterLoopAtMostEightTimes == adoption.outer_loop_counter <= 8

\* The loop's body ran eight times, each time with a furthest block, and the
\* algorithm returned at the head of the ninth iteration with the formatting
\* element still listed and on the stack.
C27_ReturnedAtTheLimit ==
    /\ pc = "parse"
    /\ adoption.outer_loop_counter = 8
    /\ adoption.furthest_block # NoneId
    /\ \E i \in 1..Len(active_formatting_elements) :
          /\ active_formatting_elements[i].kind = "Element"
          /\ StackContains(stack_of_open_elements, active_formatting_elements[i].id)

\* The active formatting elements without the entries for element.
AfeWithout(afe, element) == SelectSeq(afe, LAMBDA e : e # Element(element))

\* C28: an outer iteration of the adoption agency that finds the formatting
\* element F in the list, on the stack and in scope, with no special element
\* below F on the stack, leaves the stack as its part before F, the list
\* without F and otherwise as it was, and the arena as it was.
C28_NoFurthestBlockPopsThroughF ==
    [][LET F == LastElementWithTagNameBeforeMarker(arena, active_formatting_elements,
                                                   token.tag_name)
       IN (/\ pc = "adoption_outer" /\ pc' # "adoption_outer"
           /\ adoption.outer_loop_counter < OuterLoopLimit
           /\ F # NoneId
           /\ StackContains(stack_of_open_elements, F)
           /\ HasElementInScope(arena, stack_of_open_elements,
                                GetNode(arena, F).tag_name) = [value |-> TRUE, panic |-> FALSE]
           /\ \A i \in 1..Len(stack_of_open_elements) :
                 (\E j \in 1..(i - 1) : stack_of_open_elements[j] = F) =>
                     GetNode(arena, stack_of_open_elements[i]).tag_name \notin SPECIAL_TAGS)
          => /\ pc' = "parse"
             /\ \E k \in 1..Len(stack_of_open_elements) :
                   /\ stack_of_open_elements[k] = F
                   /\ stack_of_open_elements' = SubSeq(stack_of_open_elements, 1, k - 1)
             /\ ~StackContains(stack_of_open_elements', F)
             /\ active_formatting_elements' = AfeWithout(active_formatting_elements, F)
             /\ Len(active_formatting_elements') = Len(active_formatting_elements) - 1
             /\ arena' = arena]_vars

\* The end tag of F was processed with a non-special element above F on the
\* stack: both were popped, and F alone left the list.
C28_PoppedWithElementAbove ==
    /\ pc = "parse"
    /\ adoption.outer_loop_counter = 1
    /\ Len(dispatched) > 0
    /\ LET d == dispatched[Len(dispatched)]
       IN d.token = Tag(FALSE, "a") /\ d.insertion_mode = "InBody"
    /\ adoption.furthest_block = NoneId
    /\ active_formatting_elements = <<>>
    /\ \E n \in NodeIds(arena) :
          /\ IsElementWithTagName(GetNode(arena, n), "dialog")
          /\ ~StackContains(stack_of_open_elements, n)
    /\ \A n \in NodeIds(arena) :
          IsElementWithTagName(GetNode(arena, n), "a") =>
              ~StackContains(stack_of_open_elements, n)
    /\ errors # <<>>
    /\ errors[Len(errors)] = "Formatting element is not the current node"

C31_InitialMode ==
    /\ (insertion_mode = "Initial" /\ pc # "panicked") =>
          /\ arena = <<CreateDocument>>
          /\ stack_of_open_elements = <<>> /\ errors = <<>>
          /\ active_formatting_elements = <<>>
          /\ ~should_reprocess_token
          /\ \A i \in 1..Len(dispatched) :
                dispatched[i].insertion_mode = "Initial"
                    /\ IsParserWhitespace(dispatched[i].token)
    /\ (/\ pc = "parse" /\ Len(dispatched) > 0
        /\ dispatched[Len(dispatched)].insertion_mode = "Initial") =>
          LET d == dispatched[Len(dispatched)]
          IN CASE IsParserWhitespace(d.token) -> insertion_mode = "Initial"
               [] d.token.type = "Doctype" ->
                     /\ insertion_mode = "BeforeHtml" /\ ~should_reprocess_token
                     /\ Len(arena) = 2
                     /\ arena[1] = [CreateDocument EXCEPT !.children = <<1>>]
                     /\ arena[2].kind = "DocumentType"
                     /\ arena[2].name = d.token.tag_name
                     /\ arena[2].public_id = "" /\ arena[2].system_id = ""
                     /\ arena[2].children = <<>>
                     /\ stack_of_open_elements = <<>>
               [] OTHER ->
                     /\ insertion_mode = "BeforeHtml" /\ should_reprocess_token
                     /\ arena = <<CreateDocument>>
                     /\ stack_of_open_elements = <<>>
                     /\ tokens[Len(tokens)] = d.token

\* A DOCTYPE was dispatched in Initial after a whitespace character.
C31_DoctypeAfterWhitespace ==
    /\ pc = "parse"
    /\ Len(dispatched) = 2
    /\ IsParserWhitespace(dispatched[1].token)
    /\ dispatched[2].token.type = "Doctype"
    /\ dispatched[2].insertion_mode = "Initial"
    /\ Len(arena) = 2

\* The index of the topmost entry of the stack that is an element named tag_name.
TopmostWithTagName(a, st, tag_name) ==
    CHOOSE k \in 1..Len(st) :
        /\ IsElementWithTagName(GetNode(a, st[k]), tag_name)
        /\ \A j \in (k + 1)..Len(st) : ~IsElementWithTagName(GetNode(a, st[j]), tag_name)

\* C32: when a block start tag is dispatched in InBody while a p element is in
\* button scope, the stack is cut just before its topmost p element, one new
\* element of the token's tag name is created and pushed, and it is appended to
\* the children of the entry that stood just before that p; the p element's
\* own children stay as they were.
C32_BlockStartTagClosesP ==
    [][(/\ pc = "token" /\ ~should_stop_parsing /\ insertion_mode = "InBody"
        /\ IsStartTagWithName(token, BlockStartTags)
        /\ HasElementInButtonScope(arena, stack_of_open_elements, "p")
              = [panic |-> FALSE, value |-> TRUE])
       => LET k == TopmostWithTagName(arena, stack_of_open_elements, "p")
              new == Len(arena)
              below == stack_of_open_elements[k - 1]
          IN /\ k > 1
             /\ pc' = "parse"
             /\ Len(arena') = Len(arena) + 1
             /\ IsElementWithTagName(GetNode(arena', new), token.tag_name)
             /\ stack_of_open_elements' =
                   Append(SubSeq(stack_of_open_elements, 1, k - 1), new)
             /\ GetNode(arena', below).children =
                   Append(GetNode(arena, below).children, new)
             /\ \A n \in NodeIds(arena) :
                   n # below => GetNode(arena', n).children = GetNode(arena, n).children
      ]_vars

\* Two p start tags in a row were processed: the two p elements are children of
\* the same element, the first one is off the stack and has no child.
C32_TwoSiblingParagraphs ==
    /\ pc = "parse"
    /\ Len(dispatched) > 1
    /\ dispatched[Len(dispatched)].token = Tag(TRUE, "p")
    /\ dispatched[Len(dispatched)].insertion_mode = "InBody"
    /\ dispatched[Len(dispatched) - 1].token = Tag(TRUE, "p")
    /\ \E n \in NodeIds(arena) :
          LET children == GetNode(arena, n).children
          IN /\ Len(children) = 2
             /\ \A i \in 1..2 : IsElementWithTagName(GetNode(arena, children[i]), "p")
             /\ ~StackContains(stack_of_open_elements, children[1])
             /\ CurrentNode(stack_of_open_elements) = children[2]
             /\ GetNode(arena, children[1]).children = <<>>

\* The elements generate_implied_end_tags_except_for("p") pops.
ImpliedEndTagsButP == {"dd", "dt", "li", "optgroup", "option", "rb", "rp", "rt", "rtc"}

\* C33: after close_p_element on a stack with a p element in button scope, the
\* stack is its part before its topmost p element; and one parse error was
\* reported if the topmost entry that is not a dd, dt, li, optgroup, option,
\* rb, rp, rt or rtc element was not a p element, none otherwise.
C33_ClosePElement ==
    call.op = "close_p_element" =>
        LET before == call.stack
            k == TopmostWithTagName(arena, before, "p")
            j == CHOOSE j \in 1..Len(before) :
                    /\ GetNode(arena, before[j]).tag_name \notin ImpliedEndTagsButP
                    /\ \A i \in (j + 1)..Len(before) :
                          GetNode(arena, before[i]).tag_name \in ImpliedEndTagsButP
        IN /\ pc = "returned"
           /\ stack_of_open_elements = SubSeq(before, 1, k - 1)
           /\ Len(errors) = IF IsElementWithTagName(GetNode(arena, before[j]), "p")
                            THEN 0 ELSE 1

\* close_p_element popped an li element above the open p element without a
\* parse error, and left html, body and a div element.
C33_ClosedUnderListItem ==
    /\ call.op = "close_p_element"
    /\ Len(call.stack) = 5
    /\ IsElementWithTagName(GetNode(arena, call.stack[3]), "div")
    /\ IsElementWithTagName(GetNode(arena, call.stack[4]), "p")
    /\ IsElementWithTagName(GetNode(arena, call.stack[5]), "li")
    /\ stack_of_open_elements = <<1, 2, 3>>
    /\ errors = <<>>

\* Node n of arena a has a Text child directly followed by a Text child.
AdjacentTextChildren(a, n) ==
    LET children == GetNode(a, n).children
    IN \E i \in 1..(Len(children) - 1) :
          /\ GetNode(a, children[i]).kind = "Text"
          /\ GetNode(a, children[i + 1]).kind = "Text"

\* C34: every step leaves each node without two adjacent Text children; the
\* data of a Text node changes only when a Character token is processed, by
\* that character being appended to it, with no node created; and a Text node
\* is created only as the child of a node that had no child or whose last
\* child was not a Text node.
C34_CharactersCoalesce ==
    [][/\ \A n \in NodeIds(arena') : ~AdjacentTextChildren(arena', n)
       /\ \A n \in NodeIds(arena) :
             (GetNode(arena, n).kind = "Text" /\ GetNode(arena', n) # GetNode(arena, n)) =>
                 /\ pc = "token" /\ token.type = "Character"
                 /\ GetNode(arena', n) =
                       [GetNode(arena, n) EXCEPT !.data = Append(@, token.ch)]
                 /\ Len(arena') = Len(arena)
       /\ \A n \in NodeIds(arena') \ NodeIds(arena) : \A m \in NodeIds(arena) :
             LET children == GetNode(arena, m).children
             IN (/\ GetNode(arena', n).kind = "Text"
                 /\ GetNode(arena', m).children = Append(children, n)) =>
                    \/ children = <<>>
                    \/ GetNode(arena, children[Len(children)]).kind # "Text"
      ]_vars

\* A Character token was processed and the last child of the current node is a
\* Text node of two characters ending in it.
C34_SecondCharacterAppended ==
    /\ pc = "parse" /\ token.type = "Character" /\ ~should_reprocess_token
    /\ stack_of_open_elements # <<>>
    /\ LET children == GetNode(arena, CurrentNode(stack_of_open_elements)).children
       IN /\ children # <<>>
          /\ GetNode(arena, children[Len(children)]).kind = "Text"
          /\ Len(GetNode(arena, children[Len(children)]).data) = 2
          /\ CharAt(GetNode(arena, children[Len(children)]).data, 2) = token.ch

\* C35: after insert_html_element the arena has one node more, an Element with
\* the token's tag name created for the document of the previous current node;
\* it is the last child of the previous current node and the new current node
\* on top of the previous stack; every other node is as it was.
C35_InsertHtmlElement ==
    call.op = "insert_html_element" =>
        LET new == Len(call.arena)
            current == CurrentNode(call.stack)
        IN /\ pc = "returned"
           /\ Len(arena) = Len(call.arena) + 1
           /\ GetNode(arena, new) =
                 CreateElement(NodeDocument(call.arena, current), call.tag_name)
           /\ stack_of_open_elements = Append(call.stack, new)
           /\ GetNode(arena, current) =
                 [GetNode(call.arena, current) EXCEPT !.children = Append(@, new)]
           /\ \A n \in NodeIds(call.arena) :
                 n # current => GetNode(arena, n) = GetNode(call.arena, n)

\* insert_html_element put a div element under the p element on top of a stack
\* of four.
C35_InsertedUnderP ==
    /\ call.op = "insert_html_element" /\ call.tag_name = "div"
    /\ Len(call.stack) = 4
    /\ IsElementWithTagName(GetNode(arena, CurrentNode(call.stack)), "p")
    /\ IsElementWithTagName(GetNode(arena, CurrentNode(stack_of_open_elements)), "div")
    /\ Len(stack_of_open_elements) = 5

\* C36: when the last token processed was a title, style or noframes start tag
\* in InHead, then until the tokenizer has taken a step of the following next()
\* the current node is an element of that name, the tokenizer state is RcData
\* for title and RawText for the others, the original insertion mode is InHead
\* and the insertion mode is Text.
C36_GenericParsingAlgorithm ==
    (Len(dispatched) > 0 /\ pc \in {"parse", "next"}) =>
        LET d == dispatched[Len(dispatched)]
        IN (d.insertion_mode = "InHead"
            /\ IsStartTagWithName(d.token, {"title", "style", "noframes"})) =>
              /\ stack_of_open_elements # <<>>
              /\ IsElementWithTagName(GetNode(arena, CurrentNode(stack_of_open_elements)),
                                      d.token.tag_name)
              /\ CurrentNode(stack_of_open_elements) = Len(arena) - 1
              /\ state = IF d.token.tag_name = "title" THEN "RcData" ELSE "RawText"
              /\ original_insertion_mode = "InHead"
              /\ insertion_mode = "Text"

\* next() is about to start in RawText after a style start tag in InHead.
C36_NextStartsInRawText ==
    /\ pc = "next" /\ state = "RawText" /\ insertion_mode = "Text"
    /\ Len(dispatched) > 0
    /\ dispatched[Len(dispatched)].insertion_mode = "InHead"
    /\ dispatched[Len(dispatched)].token = Tag(TRUE, "style")

\* The tokens AfterBody has no rule of its own for: tags other than html, and
\* characters other than whitespace.
IsAnythingElseAfterBody(t) ==
    \/ t.type = "Tag" /\ t.tag_name # "html"
    \/ t.type = "Character" /\ ~IsParserWhitespace(t)

\* C37: a token dispatched in AfterBody that is not whitespace, a comment, a
\* DOCTYPE, an html tag or end-of-file is reported as a parse error, and the
\* call leaves the insertion mode InBody with the token to be reprocessed; the
\* run goes on.
C37_AnythingElseAfterBody ==
    \A i \in 1..Len(dispatched) :
        (/\ dispatched[i].insertion_mode = "AfterBody"
         /\ ~dispatched[i].stopped
         /\ IsAnythingElseAfterBody(dispatched[i].token)) =>
            /\ dispatched[i].reported >= 1
            /\ dispatched[i].selected = "InBody"
            /\ dispatched[i].set_reprocess
            /\ (i = Len(dispatched) => pc # "panicked")

\* C38: right after an html end tag was dispatched in AfterBody the insertion
\* mode is AfterAfterBody, and nothing was reported for it.
C38_AfterAfterBody ==
    (Len(dispatched) > 0 /\ pc \in {"parse", "next"}) =>
        LET d == dispatched[Len(dispatched)]
        IN (d.insertion_mode = "AfterBody" /\ ~d.stopped
            /\ d.token = Tag(FALSE, "html")) =>
              /\ insertion_mode = "AfterAfterBody"
              /\ d.reported = 0

\* C40: node_document of every Document node of the arena is the id the node
\* is stored at.
C40_DocumentIsItsOwnDocument ==
    \A d \in NodeIds(arena) :
        IsDocument(GetNode(arena, d)) => NodeDocument(arena, d) = d

\* The characters of s with the ASCII uppercase letters in lowercase.
RECURSIVE Lowercased(_)
Lowercased(s) ==
    IF Len(s) = 0 THEN ""
    ELSE ToAsciiLowercase(CharAt(s, 1)) \o Lowercased(SubSeq(s, 2, Len(s)))

\* C39: next() on `<!DOCTYPE`, whitespace, a name, `>` does not panic, and the
\* token it emits is a Doctype token whose name is the name of the source with
\* its ASCII uppercase letters in lowercase.
C39_DoctypeNameLowercased ==
    /\ pc # "panicked"
    /\ tokens # <<>> => tokens = <<Doctype(Lowercased(call.name))>>

====
